---------------------------- MODULE Spec2Model ----------------------------
(***************************************************************************)
(* A model of the chat client of rn-chatium-chat-demo:                     *)
(*   - the message store and sync controller of hooks/use-chat.ts          *)
(*     (useChat: processNewMessages, loadFreshState, loadChanges,          *)
(*     sendMessage, loadMoreMessages, markAsRead, the derived messages);   *)
(*   - the realtime layer of chatium-socket/SocketClient (SocketStore,     *)
(*     SocketSubscription, TypingSubscription).                            *)
(* Message lists are held newest first, as the hook holds them: the head   *)
(* of messagesRef is the newest loaded message (lastMessageIdRef is set    *)
(* from messagesRef[0]) and loadMoreMessages appends older pages at the    *)
(* tail.  A message id is allocated in creation order, so createdAt = id.  *)
(***************************************************************************)
EXTENDS Integers, Sequences, FiniteSets, TLC

\* ------------------------------------------------------------------ bounds
MaxMsg == 4        \* message ids are 1..MaxMsg when mergePage is called directly
MaxChange == 4     \* length of the server's change log then
ChatMaxMsg == 3    \* message ids are 1..ChatMaxMsg in a run of the whole hook
ChatMaxChange == 3 \* length of the server's change log then
MaxVer == 2        \* payload versions of one message (1 = as created)
MaxSlice == 2      \* sliceBefore / sliceAfter values tried by direct merges
ServerPageLen == 2 \* messages the server returns when no anchor is given

FreshSlice == 100  \* loadFreshState: sliceBefore = sliceAfter = 100
MoreSlice == 50    \* loadMoreMessages: sliceBefore = 50

Max2(a, b) == IF a > b THEN a ELSE b

MaxRoom == 2       \* room names are 1..MaxRoom

Rooms == 1..MaxRoom

Nil == 0           \* null / undefined / absent (falsy in the source)

NoError == "null"  \* the error state when it is null

MsgIds == 1..Max2(MaxMsg, ChatMaxMsg)

\* ------------------------------------------------------------ generic helpers
Last(s) == s[Len(s)]

Range(s) == {s[i] : i \in DOMAIN s}

Ids(s) == {s[i].id : i \in DOMAIN s}

\* Array.prototype.findIndex(m => m.id === id), 1-based; 0 when absent (-1 in JS)
FindIndex(s, id) ==
    IF \E i \in DOMAIN s : s[i].id = id
    THEN CHOOSE i \in DOMAIN s : s[i].id = id /\ \A j \in 1..(i - 1) : s[j].id # id
    ELSE 0

\* Array.prototype.filter(m => m.id !== id)
RECURSIVE FilterOutId(_, _)
FilterOutId(s, id) ==
    IF s = <<>> THEN <<>>
    ELSE IF Head(s).id = id THEN FilterOutId(Tail(s), id)
         ELSE <<Head(s)>> \o FilterOutId(Tail(s), id)

\* Map.prototype.set / delete / has on a Map keyed by message id
MapHas(m, k) == k \in DOMAIN m

MapSet(m, k, v) == [x \in (DOMAIN m) \cup {k} |-> IF x = k THEN v ELSE m[x]]

MapDelete(m, k) == [x \in (DOMAIN m) \ {k} |-> m[x]]

EmptyMap == [x \in {} |-> Nil]

\* sentMessagesRef is a Map whose iteration (insertion) order is observable:
\* a sequence of messages, each stored under its own id
SentHas(sent, k) == \E i \in DOMAIN sent : sent[i].key = k

SentSet(sent, k, v) ==
    IF SentHas(sent, k)
    THEN [i \in DOMAIN sent |-> IF sent[i].key = k THEN [key |-> k, msg |-> v] ELSE sent[i]]
    ELSE Append(sent, [key |-> k, msg |-> v])

RECURSIVE SentDelete(_, _)
SentDelete(sent, k) ==
    IF sent = <<>> THEN <<>>
    ELSE IF Head(sent).key = k THEN SentDelete(Tail(sent), k)
         ELSE <<Head(sent)>> \o SentDelete(Tail(sent), k)

\* ------------------------------------------------------------------ messages
\* ChatMessage: the fields the store reads (id, createdAt) and one field, text,
\* standing for the rest of the payload (what JSON.stringify compares)
Msg(id, v) == [id |-> id, createdAt |-> id, text |-> v]

\* ---------------------------------------------------------------- variables
VARIABLES
    \* the environment of a run: its bounds (maxMsg, maxChange) and whether
    \* requests can fail (netFails); fixed by the initial state
    env,
    \* the server (REST collaborator): its change log, and the id allocator
    srvChanges, nextId,
    \* useChat refs
    messagesRef, messagesByIdRef, sentMessagesRef, lastChangeIdRef,
    lastMessageIdRef, lastMarkAsReadIdRef, firstMessagesPageLoadedRef,
    \* useChat state and props
    chatConfig, loading, isUpdating, hasMoreMessages, error,
    \* the fetches in flight, oldest request first
    inflight,
    \* history: the sends confirmed so far, and whether all direct mergePage
    \* calls so far had consistent pivots
    sendConfirmed, consistentPivots

srvVars == <<env, srvChanges, nextId>>

\* SocketStore (the realtime connection) and its subscriptions
VARIABLES
    \* _io: Nil, or the number of the connection object; connected: _io.connected;
    \* ioHandlers: the callbacks attached to _io with _io.on, in order
    io, connected, ioHandlers,
    \* SocketStore.listeners, rooms, pendingEmits
    listeners, rooms, pendingEmits,
    \* socketSubscriptions (key -> subscription object) and the subscription
    \* objects created so far
    socketSubscriptions, subObjs,
    \* what the last step handed to _io.emit, in order
    emitted,
    \* the subscription objects whose 'socket/subscribe' has been handed to the
    \* connection and not been acknowledged yet
    acksDue,
    \* the subscription listeners the last step invoked, in order
    notified,
    \* history: the join disposers not yet called, per room, and the
    \* unsubscribe functions returned by subscribeToSocket
    holders, handles

sockVars == <<io, connected, ioHandlers, listeners, rooms, pendingEmits,
              socketSubscriptions, subObjs, emitted, acksDue, notified,
              holders, handles>>

\* TypingSubscription
VARIABLES
    \* typings (a Map, in insertion order; the timer of an entry is kept as the
    \* seconds passed since it was set) and the names last published to the
    \* listener
    typings, typingNames,
    \* the timers setTimeout has started and that were neither cleared nor
    \* fired: the peer and the seconds since the timer was set
    timers

\* a function made by debounce(callback, ms), ms > 0
VARIABLES
    \* scheduled (the closure's flag); heldArgs: the arguments object the
    \* pending timer closes over; waited: the time since that timer was set;
    \* lastArgs: the arguments of the latest call; delivered: the arguments
    \* callback was last invoked with; idle: the time since that invocation
    scheduled, heldArgs, waited, lastArgs, delivered, idle

debounceVars == <<scheduled, heldArgs, waited, lastArgs, delivered, idle>>

\* TypingSubscription.updateTyping
VARIABLES
    \* the wall clock (new Date().getTime(), in seconds) and prevTypingCalledAt;
    \* pulsedAt: the time 'typing/update' was last emitted; droppedAt: the
    \* time of the last call since that emitted nothing
    now, prevTypingCalledAt, pulsedAt, droppedAt

throttleVars == <<now, prevTypingCalledAt, pulsedAt, droppedAt>>

timerVars == <<debounceVars, throttleVars>>

typingVars == <<typings, typingNames, timers, timerVars>>

hookVars == <<lastMarkAsReadIdRef, chatConfig, loading, isUpdating, hasMoreMessages,
              error, inflight, sendConfirmed>>

storeVars == <<messagesRef, messagesByIdRef, sentMessagesRef, lastChangeIdRef,
               lastMessageIdRef, firstMessagesPageLoadedRef>>

\* -------------------------------------------------------------------- server
\* ChatChange records, as the changes endpoint returns them
CreateChange(cid, m) == [id |-> cid, operation |-> "create", message |-> m]

UpdateChange(cid, m) == [id |-> cid, operation |-> "update", message |-> m]

DeleteChange(cid, mid) == [id |-> cid, operation |-> "delete", messageId |-> mid]

\* the server's live messages after the first n changes of its log
RECURSIVE SrvMsgsAt(_, _)
SrvMsgsAt(log, n) ==
    IF n = 0 THEN EmptyMap
    ELSE LET prev == SrvMsgsAt(log, n - 1)
             c == log[n]
         IN  IF c.operation = "delete" THEN MapDelete(prev, c.messageId)
             ELSE MapSet(prev, c.message.id, c.message)

SrvMsgs == SrvMsgsAt(srvChanges, Len(srvChanges))

\* the messages of map m with id <= k, newest first
RECURSIVE Newest(_, _)
Newest(m, k) ==
    IF k = 0 THEN <<>>
    ELSE (IF k \in DOMAIN m THEN <<m[k]>> ELSE <<>>) \o Newest(m, k - 1)

SrvTimeline == Newest(SrvMsgs, env.maxMsg)

Min(a, b) == IF a < b THEN a ELSE b

Max(a, b) == IF a > b THEN a ELSE b

\* GET messages_get_url?pageWith&sliceBefore&sliceAfter: the anchor with the
\* sliceAfter newer and the sliceBefore older messages around it, newest first;
\* with no anchor, or an anchor the server no longer holds, the latest page.
\* lastChangeId is the id of the last change of the log.
SrvPage(pageWith, sliceBefore, sliceAfter) ==
    LET t == SrvTimeline
        i == FindIndex(t, pageWith)
    IN  [isNull |-> FALSE,
         messages |-> IF pageWith # Nil /\ i # 0
                      THEN SubSeq(t, Max(1, i - sliceAfter), Min(Len(t), i + sliceBefore))
                      ELSE SubSeq(t, 1, Min(Len(t), ServerPageLen)),
         lastChangeId |-> Len(srvChanges)]

\* loadMessages returning null (the request failed or success was false)
NullData == [isNull |-> TRUE, messages |-> <<>>, lastChangeId |-> Nil]

\* ----------------------------------------------------------------- the store
Store ==
    [messagesRef |-> messagesRef,
     messagesByIdRef |-> messagesByIdRef,
     sentMessagesRef |-> sentMessagesRef,
     lastChangeIdRef |-> lastChangeIdRef,
     lastMessageIdRef |-> lastMessageIdRef,
     firstMessagesPageLoadedRef |-> firstMessagesPageLoadedRef]

SetStore(st) ==
    /\ messagesRef' = st.messagesRef
    /\ messagesByIdRef' = st.messagesByIdRef
    /\ sentMessagesRef' = st.sentMessagesRef
    /\ lastChangeIdRef' = st.lastChangeIdRef
    /\ lastMessageIdRef' = st.lastMessageIdRef
    /\ firstMessagesPageLoadedRef' = st.firstMessagesPageLoadedRef

EmptyStore ==
    [messagesRef |-> <<>>,
     messagesByIdRef |-> EmptyMap,
     sentMessagesRef |-> <<>>,
     lastChangeIdRef |-> Nil,
     lastMessageIdRef |-> Nil,
     firstMessagesPageLoadedRef |-> FALSE]

\* a merge mode that never clears the store
AddTypeKeepsHistory(st, newMessages, pageWith, sliceBefore, sliceAfter) ==
    IF Len(st.messagesRef) = 0 THEN "append"
    ELSE IF pageWith = Nil
    THEN (IF MapHas(st.messagesByIdRef, Last(newMessages).id) THEN "prepend" ELSE "append")
    ELSE IF st.messagesRef[1].id = pageWith /\ sliceAfter # 0 THEN "prepend"
    ELSE "append"

\* processNewMessages, lines 180-197: the merge mode
AddType(st, newMessages, pageWith, sliceBefore, sliceAfter) ==
    IF Len(st.messagesRef) = 0 THEN "append"
    ELSE IF pageWith = Nil
    THEN (IF MapHas(st.messagesByIdRef, Last(newMessages).id) THEN "prepend" ELSE "replace")
    ELSE IF st.messagesRef[1].id = pageWith /\ sliceAfter # 0 THEN "prepend"
    ELSE IF Last(st.messagesRef).id = pageWith /\ sliceBefore # 0 THEN "append"
    ELSE "replace"

\* processNewMessages, lines 200-206: the contiguous-from-start flag
FirstPageLoaded(st, indexOfPageWith, pageWith, sliceBefore, sliceAfter) ==
    IF st.firstMessagesPageLoadedRef /\ pageWith # Nil /\ sliceBefore # 0 /\ sliceAfter = 0
    THEN Len(st.messagesRef) > 0 /\ Last(st.messagesRef).id = pageWith
    ELSE pageWith = Nil \/ (sliceAfter # 0 /\ indexOfPageWith < sliceAfter)

\* an iteration that pushes an unindexed message at the tail in either mode
MergeStepAtTail(acc, message, addType) ==
    IF MapHas(acc.byId, message.id) /\ acc.byId[message.id] # message
    THEN [acc EXCEPT !.upd = @ \cup {message.id},
                     !.byId = MapSet(@, message.id, message)]
    ELSE IF ~MapHas(acc.byId, message.id)
    THEN [acc EXCEPT !.byId = MapSet(@, message.id, message),
                     !.sent = SentDelete(@, message.id),
                     !.msgs = Append(@, message)]
    ELSE acc

\* processNewMessages, lines 218-233: one iteration of the loop over the page;
\* acc holds the index, the pending sends, the sequence and updateMessages
MergeStep(acc, message, addType) ==
    IF MapHas(acc.byId, message.id) /\ acc.byId[message.id] # message
    THEN [acc EXCEPT !.upd = @ \cup {message.id},
                     !.byId = MapSet(@, message.id, message)]
    ELSE IF ~MapHas(acc.byId, message.id)
    THEN [acc EXCEPT !.byId = MapSet(@, message.id, message),
                     !.sent = SentDelete(@, message.id),
                     !.msgs = IF addType = "append" THEN Append(@, message)
                              ELSE <<message>> \o @]
    ELSE acc

\* processNewMessages, lines 217-234: append walks the page forwards, prepend
\* backwards (i is the loop counter plus one)
RECURSIVE MergeLoop(_, _, _, _)
MergeLoop(acc, newMessages, addType, i) ==
    IF i > Len(newMessages) THEN acc
    ELSE MergeLoop(
            MergeStep(acc,
                      newMessages[IF addType = "append" THEN i
                                  ELSE Len(newMessages) - i + 1],
                      addType),
            newMessages, addType, i + 1)

\* the sequence left with the slots it had
KeepSlots(msgs, byId, upd) == msgs

\* processNewMessages, lines 237-244: changed messages replace their slots
RefreshSlots(msgs, byId, upd) ==
    [i \in DOMAIN msgs |-> IF msgs[i].id \in upd THEN byId[msgs[i].id] ELSE msgs[i]]

\* a page taken whatever the pivot
PivotNotLookedUp(newMessages, pageWith) == FALSE

\* processNewMessages, lines 176-177: the pivot is given and not in the page
PivotMissing(newMessages, pageWith) ==
    pageWith # Nil /\ FindIndex(newMessages, pageWith) = 0

\* processNewMessages(newMessagesData, pageWith, sliceBefore, sliceAfter):
\* the returned boolean and the store afterwards
processNewMessages(st, data, pageWith, sliceBefore, sliceAfter) ==
    IF data.isNull \/ Len(data.messages) = 0 THEN [applied |-> FALSE, st |-> st]
    ELSE IF PivotMissing(data.messages, pageWith)
    THEN [applied |-> FALSE, st |-> st]
    ELSE
    LET newMessages == data.messages
        indexOfPageWith == IF pageWith # Nil THEN FindIndex(newMessages, pageWith) ELSE 0
        addType0 == AddType(st, newMessages, pageWith, sliceBefore, sliceAfter)
        first == FirstPageLoaded(st, indexOfPageWith, pageWith, sliceBefore, sliceAfter)
        replace == addType0 = "replace"
        addType == IF replace THEN "append" ELSE addType0
        acc0 == [byId |-> IF replace THEN EmptyMap ELSE st.messagesByIdRef,
                 sent |-> st.sentMessagesRef,
                 msgs |-> IF replace THEN <<>> ELSE st.messagesRef,
                 upd |-> {}]
        acc == MergeLoop(acc0, newMessages, addType, 1)
        msgs == RefreshSlots(acc.msgs, acc.byId, acc.upd)
    IN  [applied |-> TRUE,
         st |-> [messagesRef |-> msgs,
                 messagesByIdRef |-> acc.byId,
                 sentMessagesRef |-> acc.sent,
                 lastChangeIdRef |-> IF data.lastChangeId # Nil THEN data.lastChangeId
                                     ELSE st.lastChangeIdRef,
                 lastMessageIdRef |-> IF first /\ Len(msgs) > 0 THEN msgs[1].id
                                      ELSE st.lastMessageIdRef,
                 firstMessagesPageLoadedRef |-> first]]


\* a change record applied with creates shown whatever the flag says
applyChangeShowsCreates(st, change) ==
    IF change.operation = "create"
    THEN [st EXCEPT !.lastMessageIdRef = change.message.id,
                    !.messagesByIdRef = MapSet(@, change.message.id, change.message),
                    !.messagesRef = <<change.message>> \o @,
                    !.sentMessagesRef = SentDelete(@, change.message.id)]
    ELSE IF change.operation = "update"
    THEN [st EXCEPT !.messagesByIdRef = MapSet(@, change.message.id, change.message),
                    !.messagesRef = [i \in DOMAIN @ |->
                                        IF i = FindIndex(@, change.message.id)
                                        THEN change.message ELSE @[i]]]
    ELSE [st EXCEPT !.messagesByIdRef = MapDelete(@, change.messageId),
                    !.messagesRef = FilterOutId(@, change.messageId)]

\* a change record applied with deletes and updates that leave the sequence
\* as it is
applyChangeIndexOnly(st, change) ==
    IF change.operation = "create"
    THEN [st EXCEPT !.lastMessageIdRef = change.message.id,
                    !.messagesByIdRef = MapSet(@, change.message.id, change.message),
                    !.messagesRef = IF st.firstMessagesPageLoadedRef
                                    THEN <<change.message>> \o @ ELSE @,
                    !.sentMessagesRef = SentDelete(@, change.message.id)]
    ELSE IF change.operation = "update"
    THEN [st EXCEPT !.messagesByIdRef = MapSet(@, change.message.id, change.message)]
    ELSE [st EXCEPT !.messagesByIdRef = MapDelete(@, change.messageId)]

\* loadChanges, lines 343-365: one change record applied to the store
applyChange(st, change) ==
    IF change.operation = "create"
    THEN [st EXCEPT !.lastMessageIdRef = change.message.id,
                    !.messagesByIdRef = MapSet(@, change.message.id, change.message),
                    !.messagesRef = IF st.firstMessagesPageLoadedRef
                                    THEN <<change.message>> \o @ ELSE @,
                    !.sentMessagesRef = SentDelete(@, change.message.id)]
    ELSE IF change.operation = "update"
    THEN [st EXCEPT !.messagesByIdRef = MapSet(@, change.message.id, change.message),
                    !.messagesRef = [i \in DOMAIN @ |->
                                        IF i = FindIndex(@, change.message.id)
                                        THEN change.message ELSE @[i]]]
    ELSE [st EXCEPT !.messagesByIdRef = MapDelete(@, change.messageId),
                    !.messagesRef = FilterOutId(@, change.messageId)]

\* loadChanges, lines 339-370: the changes of one response applied in server
\* order, then the cursor set to the id of the last one
RECURSIVE ApplyEach(_, _)
ApplyEach(st, changes) ==
    IF changes = <<>> THEN st
    ELSE ApplyEach(applyChange(st, Head(changes)), Tail(changes))

ApplyChanges(st, changes) ==
    IF Len(changes) = 0 THEN st
    ELSE [ApplyEach(st, changes) EXCEPT !.lastChangeIdRef = Last(changes).id]

\* the derived messages list, lines 97-123: pending sends, most recently queued
\* first, then the loaded messages, each id once
RECURSIVE Dedup(_, _)
Dedup(s, seen) ==
    IF s = <<>> THEN <<>>
    ELSE IF Head(s).id \in seen THEN Dedup(Tail(s), seen)
         ELSE <<Head(s)>> \o Dedup(Tail(s), seen \cup {Head(s).id})

Reverse(s) == [i \in DOMAIN s |-> s[Len(s) - i + 1]]

messages ==
    Dedup(Reverse([i \in DOMAIN sentMessagesRef |-> sentMessagesRef[i].msg])
          \o messagesRef, {})

\* ------------------------------------------------- the server's own actions
SrvCreate ==
    /\ nextId <= env.maxMsg
    /\ Len(srvChanges) < env.maxChange
    /\ srvChanges' = Append(srvChanges, CreateChange(Len(srvChanges) + 1, Msg(nextId, 1)))
    /\ nextId' = nextId + 1
    /\ UNCHANGED env

SrvUpdate(id) ==
    /\ Len(srvChanges) < env.maxChange
    /\ id \in DOMAIN SrvMsgs
    /\ SrvMsgs[id].text < MaxVer
    /\ srvChanges' = Append(srvChanges,
                            UpdateChange(Len(srvChanges) + 1, Msg(id, SrvMsgs[id].text + 1)))
    /\ UNCHANGED <<env, nextId>>

SrvDelete(id) ==
    /\ Len(srvChanges) < env.maxChange
    /\ id \in DOMAIN SrvMsgs
    /\ srvChanges' = Append(srvChanges, DeleteChange(Len(srvChanges) + 1, id))
    /\ UNCHANGED <<env, nextId>>

\* ---------------------------------------------- mergePage called directly
\* a pivot is consistent when there is none, or it is the head with sliceAfter,
\* or the tail with sliceBefore
ConsistentPivot(st, pageWith, sliceBefore, sliceAfter) ==
    \/ pageWith = Nil
    \/ /\ Len(st.messagesRef) > 0
       /\ \/ st.messagesRef[1].id = pageWith /\ sliceAfter # 0
          \/ Last(st.messagesRef).id = pageWith /\ sliceBefore # 0

MergePage(pageWith, sliceBefore, sliceAfter) ==
    LET r == processNewMessages(Store, SrvPage(pageWith, sliceBefore, sliceAfter),
                                pageWith, sliceBefore, sliceAfter)
    IN  /\ SetStore(r.st)
        /\ consistentPivots' =
              (consistentPivots /\ ConsistentPivot(Store, pageWith, sliceBefore, sliceAfter))
        /\ UNCHANGED <<srvVars, hookVars, sockVars, typingVars>>

\* the chat changes between two calls
MergeSrvCreate == SrvCreate /\ UNCHANGED <<storeVars, hookVars, consistentPivots, sockVars, typingVars>>

MergeSrvUpdate(id) == SrvUpdate(id) /\ UNCHANGED <<storeVars, hookVars, consistentPivots, sockVars, typingVars>>

MergeSrvDelete(id) == SrvDelete(id) /\ UNCHANGED <<storeVars, hookVars, consistentPivots, sockVars, typingVars>>

vars == <<srvVars, storeVars, hookVars, consistentPivots, sockVars, typingVars>>

\* SocketStore as constructed (constructor, lines 29-36), nothing subscribed
SockInit ==
    /\ io = Nil
    /\ connected = FALSE
    /\ ioHandlers = <<>>
    /\ listeners = <<>>
    /\ rooms = EmptyMap
    /\ pendingEmits = <<>>
    /\ socketSubscriptions = EmptyMap
    /\ subObjs = <<>>
    /\ emitted = <<>>
    /\ acksDue = {}
    /\ notified = <<>>
    /\ holders = [r \in Rooms |-> 0]
    /\ handles = <<>>

\* debounce(callback, ms) just called, lines 4-10
DebounceInit ==
    /\ scheduled = FALSE
    /\ heldArgs = Nil
    /\ waited = 0
    /\ lastArgs = Nil
    /\ delivered = Nil
    /\ idle = 0

\* the clock at the start, and prevTypingCalledAt undefined
ThrottleInit ==
    /\ now = 1
    /\ prevTypingCalledAt = Nil
    /\ pulsedAt = Nil
    /\ droppedAt = Nil

\* TypingSubscription as constructed (lines 220-228)
TypingInit ==
    /\ typings = <<>>
    /\ typingNames = <<>>
    /\ timers = {}
    /\ DebounceInit
    /\ ThrottleInit

\* useChat as constructed (lines 76-94) for the chat configuration cfg
HookInit(cfg) ==
    /\ messagesRef = <<>>
    /\ messagesByIdRef = EmptyMap
    /\ sentMessagesRef = <<>>
    /\ lastChangeIdRef = Nil
    /\ lastMessageIdRef = Nil
    /\ lastMarkAsReadIdRef = Nil
    /\ firstMessagesPageLoadedRef = FALSE
    /\ chatConfig = cfg
    /\ loading = FALSE
    /\ isUpdating = FALSE
    /\ hasMoreMessages = TRUE
    /\ error = NoError
    /\ inflight = <<>>
    /\ sendConfirmed = {}
    /\ consistentPivots = TRUE
    /\ SockInit
    /\ TypingInit

\* ChatConfig.chat: the fields useChat reads that differ between chats
ChatConfig(lastRead, lastMessage) ==
    [last_read_message_id |-> lastRead, last_message_id |-> lastMessage,
     support_paging |-> TRUE, messages_changes_url |-> TRUE]

InitMerge ==
    /\ env = [maxMsg |-> MaxMsg, maxChange |-> MaxChange, netFails |-> FALSE,
             moreSlice |-> MoreSlice]
    /\ srvChanges = <<>>
    /\ nextId = 1
    /\ HookInit(ChatConfig(Nil, Nil))

NextMerge ==
    \/ MergeSrvCreate
    \/ \E id \in MsgIds : MergeSrvUpdate(id)
    \/ \E id \in MsgIds : MergeSrvDelete(id)
    \/ \E p \in 0..(nextId - 1), sb \in 0..MaxSlice, sa \in 0..MaxSlice : MergePage(p, sb, sa)

SpecMerge == InitMerge /\ [][NextMerge]_vars

\* ------------------------------------------------------------------ claims
NoDuplicateIds(s) == \A i, j \in DOMAIN s : s[i].id = s[j].id => i = j

NewestFirst(s) == \A i, j \in DOMAIN s : i < j => s[i].createdAt > s[j].createdAt

\* C1: after every mergePage call of a sequence of calls with consistent pivots,
\* the canonical sequence holds no id twice and is in chronological order.
C1_MergeKeepsOrder ==
    consistentPivots => NoDuplicateIds(messagesRef) /\ NewestFirst(messagesRef)

Pivots == 0..(nextId - 1)

Slices == 0..MaxSlice

\* the ids of a page that are not in the id index, in page order
NewIds(st, page) ==
    LET fresh == SelectSeq(page, LAMBDA m : ~MapHas(st.messagesByIdRef, m.id))
    IN  [i \in DOMAIN fresh |-> fresh[i].id]

IdSeq(s) == [i \in DOMAIN s |-> s[i].id]

\* C12: a merge with a pivot id that does not occur in the fetched page
\* returns false and leaves the sequence, the id index, the pending sends, the
\* cursor and the contiguous-from-start flag (the whole store) as they were.
C12_MissingPivotRejected ==
    \A p \in Pivots \ {Nil}, sb \in Slices, sa \in Slices :
        LET data == SrvPage(p, sb, sa)
            r == processNewMessages(Store, data, p, sb, sa)
        IN  FindIndex(data.messages, p) = 0 => (~r.applied /\ r.st = Store)

\* messages are loaded and the server answers a pivot that is among them,
\* and that it has deleted, with a page of other messages
C12_Witness ==
    \E p \in Pivots \ {Nil} :
        /\ MapHas(messagesByIdRef, p)
        /\ Len(messagesRef) > 1
        /\ Len(SrvPage(p, 1, 1).messages) > 0
        /\ FindIndex(SrvPage(p, 1, 1).messages, p) = 0
        /\ \E i \in DOMAIN SrvPage(p, 1, 1).messages :
              ~MapHas(messagesByIdRef, SrvPage(p, 1, 1).messages[i].id)

\* C13: on a non-empty store, a merge with no pivot of a page whose last
\* message id is not in the id index is applied as an append: the messages
\* loaded before stay in the sequence at their positions and the page's new
\* messages follow the tail in page order.
C13_NoPivotAppends ==
    \A sb \in Slices, sa \in Slices :
        LET data == SrvPage(Nil, sb, sa)
            r == processNewMessages(Store, data, Nil, sb, sa)
        IN  (/\ Len(messagesRef) > 0
             /\ Len(data.messages) > 0
             /\ ~MapHas(messagesByIdRef, Last(data.messages).id))
            => (/\ r.applied
                /\ IdSeq(r.st.messagesRef)
                       = IdSeq(messagesRef) \o NewIds(Store, data.messages))

\* the merge is one of the two prepend cases of lines 183-190
PrependCase(st, newMessages, pageWith, sliceAfter) ==
    /\ Len(st.messagesRef) > 0
    /\ Len(newMessages) > 0
    /\ \/ pageWith = Nil /\ MapHas(st.messagesByIdRef, Last(newMessages).id)
       \/ /\ pageWith # Nil
          /\ FindIndex(newMessages, pageWith) # 0
          /\ st.messagesRef[1].id = pageWith
          /\ sliceAfter # 0

\* C14: when no pivot is given and the page's last id is indexed, or the
\* pivot (held by the page) is the head id and sliceAfter is given, the merge
\* is a prepend: the page's unindexed messages come before the old head in
\* page order and the messages loaded before follow in their old order.
C14_PrependKeepsPageOrder ==
    \A p \in Pivots, sb \in Slices, sa \in Slices :
        LET data == SrvPage(p, sb, sa)
            r == processNewMessages(Store, data, p, sb, sa)
        IN  PrependCase(Store, data.messages, p, sa)
            => (/\ r.applied
                /\ IdSeq(r.st.messagesRef)
                       = NewIds(Store, data.messages) \o IdSeq(messagesRef)
                /\ \A i \in DOMAIN data.messages :
                       r.st.messagesByIdRef[data.messages[i].id] = data.messages[i])

C14_Witness ==
    /\ Len(messagesRef) > 1
    /\ \E p \in Pivots \ {Nil} :
           /\ PrependCase(Store, SrvPage(p, 0, MaxSlice).messages, p, MaxSlice)
           /\ Len(NewIds(Store, SrvPage(p, 0, MaxSlice).messages)) > 1

\* the merge has a pivot held by the page that is neither the head with
\* sliceAfter nor the tail with sliceBefore (lines 189-197)
ReplaceCase(st, newMessages, pageWith, sliceBefore, sliceAfter) ==
    /\ Len(st.messagesRef) > 0
    /\ pageWith # Nil
    /\ FindIndex(newMessages, pageWith) # 0
    /\ ~(st.messagesRef[1].id = pageWith /\ sliceAfter # 0)
    /\ ~(Last(st.messagesRef).id = pageWith /\ sliceBefore # 0)

\* C15: on a non-empty store, a merge whose pivot is in the page but is not
\* the head with sliceAfter nor the tail with sliceBefore is a replace: the
\* sequence is the page in page order, the index holds exactly the page's
\* messages, and nothing loaded before is left.
C15_AmbiguousPivotReplaces ==
    \A p \in Pivots, sb \in Slices, sa \in Slices :
        LET data == SrvPage(p, sb, sa)
            r == processNewMessages(Store, data, p, sb, sa)
        IN  ReplaceCase(Store, data.messages, p, sb, sa)
            => (/\ r.applied
                /\ r.st.messagesRef = data.messages
                /\ \A id \in MsgIds :
                       MapHas(r.st.messagesByIdRef, id) <=> id \in Ids(data.messages)
                /\ \A i \in DOMAIN data.messages :
                       r.st.messagesByIdRef[data.messages[i].id] = data.messages[i])

C15_Witness ==
    \E p \in Pivots, sb \in Slices, sa \in Slices :
        /\ ReplaceCase(Store, SrvPage(p, sb, sa).messages, p, sb, sa)
        /\ Len(messagesRef) > 1
        /\ \E i \in DOMAIN messagesRef :
               messagesRef[i].id \notin Ids(SrvPage(p, sb, sa).messages)
        /\ \E i \in DOMAIN SrvPage(p, sb, sa).messages :
               ~MapHas(messagesByIdRef, SrvPage(p, sb, sa).messages[i].id)


\* =========================================================================
\* useChat as a whole: calls of its operations, the fetches they leave in
\* flight, and the handling of each response.  A fetch is answered by the
\* server when it is issued; its response is handled in a later step, in any
\* order with the other fetches in flight.
\* =========================================================================
MaxInflight == 2   \* fetches in flight at once
InitMsgs == 1      \* messages the chat holds when the hook is mounted

\* how a request can end: answered, answered with success false, or thrown
Outcomes == IF env.netFails THEN {"ok", "fail", "throw"} ELSE {"ok"}

RemoveAt(s, i) == SubSeq(s, 1, i - 1) \o SubSeq(s, i + 1, Len(s))

\* loadMessages(pageWith, sliceBefore, sliceAfter), lines 131-164: the GET in flight
MessagesFetch(op, pageWith, sliceBefore, sliceAfter, beforeCount, then) ==
    [fetch |-> "messages", op |-> op, pageWith |-> pageWith,
     sliceBefore |-> sliceBefore, sliceAfter |-> sliceAfter,
     data |-> SrvPage(pageWith, sliceBefore, sliceAfter),
     beforeCount |-> beforeCount, then |-> then, overtaken |-> FALSE]

\* loadChanges, lines 322-330: GET changes?lastKnownChangeId=cursor in flight
ChangesFetch(cursor) ==
    [fetch |-> "changes", cursor |-> cursor,
     changes |-> SubSeq(srvChanges, cursor + 1, Len(srvChanges)), overtaken |-> FALSE]

\* the store a messages response is merged into: loadFreshState has reset the
\* newest id from the chat's configuration (line 284) and emptied sequence,
\* index and cursor (lines 290-293); loadMoreMessages merges into the store
StoreAtMerge(f) ==
    IF f.op = "fresh"
    THEN [EmptyStore EXCEPT !.sentMessagesRef = sentMessagesRef,
                            !.lastMessageIdRef = chatConfig.last_message_id]
    ELSE Store

\* the requests in flight once the response of request i has been handled and
\* has left the store as st: if it changed the store, the loads issued before
\* it (they stand before it in inflight) are noted as overtaken
Answered(i, st) ==
    RemoveAt([j \in DOMAIN inflight |->
                 IF j < i /\ st # Store /\ inflight[j].fetch \in {"messages", "changes"}
                 THEN [inflight[j] EXCEPT !.overtaken = TRUE]
                 ELSE inflight[j]], i)

\* loadFreshState up to its await, lines 262-280; rest are the other fetches in
\* flight, then is what the caller does after it ("updatingOff": the finally
\* of loadChanges)
LoadFreshStateStart(rest, then) ==
    LET pageWith == chatConfig.last_read_message_id
        slice == IF pageWith # Nil THEN FreshSlice ELSE Nil
    IN  /\ loading' = TRUE
        /\ error' = NoError
        /\ inflight' = Append(rest, MessagesFetch("fresh", pageWith, slice, slice, 0, then))

\* loadChanges up to its await, lines 310-330
LoadChangesStart(rest) ==
    IF lastChangeIdRef = Nil \/ ~chatConfig.messages_changes_url
    THEN LoadFreshStateStart(rest, "none") /\ UNCHANGED isUpdating
    ELSE /\ isUpdating' = TRUE
         /\ inflight' = Append(rest, ChangesFetch(lastChangeIdRef))
         /\ UNCHANGED <<loading, error>>

\* the effect on chatConfig, lines 542-546 (and every reload of the config)
LoadFreshStateCall ==
    /\ Len(inflight) < MaxInflight
    /\ LoadFreshStateStart(inflight, "none")
    /\ UNCHANGED <<srvVars, storeVars, lastMarkAsReadIdRef, chatConfig, isUpdating,
                   hasMoreMessages, sendConfirmed, consistentPivots, sockVars, typingVars>>

\* refresh(), and the messages socket signal, lines 537-539 and 569-572
LoadChangesCall ==
    /\ Len(inflight) < MaxInflight
    /\ LoadChangesStart(inflight)
    /\ UNCHANGED <<srvVars, storeVars, lastMarkAsReadIdRef, chatConfig,
                   hasMoreMessages, sendConfirmed, consistentPivots, sockVars, typingVars>>

\* loadMoreMessages up to its await, lines 456-465
LoadMoreCall ==
    /\ Len(inflight) < MaxInflight
    /\ Len(messagesRef) # 0
    /\ ~loading
    /\ chatConfig.support_paging
    /\ loading' = TRUE
    /\ inflight' = Append(inflight,
                          MessagesFetch("more", Last(messagesRef).id, env.moreSlice, Nil,
                                        Len(messagesRef), "none"))
    /\ UNCHANGED <<srvVars, storeVars, lastMarkAsReadIdRef, chatConfig, isUpdating,
                   hasMoreMessages, error, sendConfirmed, consistentPivots, sockVars, typingVars>>

\* sendMessage up to its await, lines 384-430.  The client id is the next
\* unused id; the server either stores the message (under the client's id or
\* under an id of its own) or refuses it.
SendCall(accepted, sameId) ==
    LET messageId == nextId
        addedId == IF sameId THEN messageId ELSE messageId + 1
    IN  /\ Len(inflight) < MaxInflight
        /\ IF accepted THEN addedId <= env.maxMsg /\ Len(srvChanges) < env.maxChange
           ELSE messageId <= env.maxMsg /\ sameId
        /\ sentMessagesRef' = SentSet(sentMessagesRef, messageId, Msg(messageId, 0))
        /\ nextId' = IF accepted THEN addedId + 1 ELSE messageId + 1
        /\ srvChanges' = IF accepted
                         THEN Append(srvChanges,
                                     CreateChange(Len(srvChanges) + 1, Msg(addedId, 1)))
                         ELSE srvChanges
        /\ inflight' = Append(inflight,
                              [fetch |-> "add", messageId |-> messageId,
                               accepted |-> accepted, added |-> Msg(addedId, 1)])
        /\ UNCHANGED <<env, messagesRef, messagesByIdRef, lastChangeIdRef, lastMessageIdRef,
                       firstMessagesPageLoadedRef, lastMarkAsReadIdRef, chatConfig,
                       loading, isUpdating, hasMoreMessages, error, sendConfirmed, consistentPivots, sockVars, typingVars>>

\* markAsRead(message) up to its await, lines 477-500; a call that returns
\* early changes nothing
MarkAsReadCall(message) ==
    LET lastMarkAsRead == lastMarkAsReadIdRef
        known == lastMarkAsRead # Nil /\ MapHas(messagesByIdRef, lastMarkAsRead)
    IN  /\ Len(inflight) < MaxInflight
        /\ ~(known /\ messagesByIdRef[lastMarkAsRead].id = message.id)
        /\ ~(known /\ message.createdAt < messagesByIdRef[lastMarkAsRead].createdAt)
        /\ lastMarkAsReadIdRef' = message.id
        /\ inflight' = Append(inflight, [fetch |-> "mark", messageId |-> message.id])
        /\ UNCHANGED <<srvVars, storeVars, chatConfig, loading, isUpdating,
                       hasMoreMessages, error, sendConfirmed, consistentPivots, sockVars, typingVars>>

\* a handler of the messages GET that merges into the store as it stands
MessagesDoneKeepsStore(i, outcome) ==
    LET f == inflight[i]
        data == IF outcome = "ok" THEN f.data ELSE NullData
        r == processNewMessages(Store, data, f.pageWith, f.sliceBefore, f.sliceAfter)
    IN  /\ f.fetch = "messages"
        /\ SetStore(r.st)
        /\ lastMarkAsReadIdRef' = IF f.op = "fresh" THEN chatConfig.last_read_message_id
                                  ELSE lastMarkAsReadIdRef
        /\ hasMoreMessages' =
              IF data.isNull THEN hasMoreMessages
              ELSE IF f.op = "fresh"
              THEN chatConfig.support_paging /\ Len(r.st.messagesRef) > 0
              ELSE Len(r.st.messagesRef) - f.beforeCount >= env.moreSlice
        /\ error' = IF outcome = "throw" THEN "error" ELSE error
        /\ loading' = FALSE
        /\ isUpdating' = IF f.then = "updatingOff" THEN FALSE ELSE isUpdating
        /\ inflight' = Answered(i, r.st)
        /\ UNCHANGED <<srvVars, chatConfig, sendConfirmed, consistentPivots, sockVars, typingVars>>

\* the response of a messages GET handled: loadFreshState lines 280-306, or
\* loadMoreMessages lines 465-473.  outcome: "ok", "fail" (success false) or
\* "throw" (loadMessages catches it, sets the error and returns null)
MessagesDone(i, outcome) ==
    LET f == inflight[i]
        data == IF outcome = "ok" THEN f.data ELSE NullData
        st0 == StoreAtMerge(f)
        r == processNewMessages(st0, data, f.pageWith, f.sliceBefore, f.sliceAfter)
    IN  /\ f.fetch = "messages"
        /\ SetStore(r.st)
        /\ lastMarkAsReadIdRef' = IF f.op = "fresh" THEN chatConfig.last_read_message_id
                                  ELSE lastMarkAsReadIdRef
        /\ hasMoreMessages' =
              IF data.isNull THEN hasMoreMessages
              ELSE IF f.op = "fresh"
              THEN chatConfig.support_paging /\ Len(r.st.messagesRef) > 0
              ELSE Len(r.st.messagesRef) - f.beforeCount >= env.moreSlice
        /\ error' = IF outcome = "throw" THEN "error" ELSE error
        /\ loading' = FALSE
        /\ isUpdating' = IF f.then = "updatingOff" THEN FALSE ELSE isUpdating
        /\ inflight' = Answered(i, r.st)
        /\ UNCHANGED <<srvVars, chatConfig, sendConfirmed, consistentPivots, sockVars, typingVars>>

\* a handler that reloads only when the request throws
ChangesDoneUnlessThrown(i, outcome) ==
    LET f == inflight[i]
    IN  /\ f.fetch = "changes"
        /\ IF outcome # "throw"
           THEN /\ SetStore(ApplyChanges(Store, f.changes))
                /\ isUpdating' = FALSE
                /\ inflight' = Answered(i, ApplyChanges(Store, f.changes))
                /\ UNCHANGED <<loading, error>>
           ELSE /\ LoadFreshStateStart(RemoveAt(inflight, i), "updatingOff")
                /\ UNCHANGED <<storeVars, isUpdating>>
        /\ UNCHANGED <<srvVars, lastMarkAsReadIdRef, chatConfig, hasMoreMessages,
                       sendConfirmed, consistentPivots, sockVars, typingVars>>

\* the response of the changes GET handled, lines 330-380
ChangesDone(i, outcome) ==
    LET f == inflight[i]
    IN  /\ f.fetch = "changes"
        /\ IF outcome = "ok"
           THEN /\ SetStore(ApplyChanges(Store, f.changes))
                /\ isUpdating' = FALSE
                /\ inflight' = Answered(i, ApplyChanges(Store, f.changes))
                /\ UNCHANGED <<loading, error>>
           ELSE /\ LoadFreshStateStart(RemoveAt(inflight, i), "updatingOff")
                /\ UNCHANGED <<storeVars, isUpdating>>
        /\ UNCHANGED <<srvVars, lastMarkAsReadIdRef, chatConfig, hasMoreMessages,
                       sendConfirmed, consistentPivots, sockVars, typingVars>>

\* the response of the add-message POST handled, lines 432-450
AddDone(i, outcome) ==
    LET f == inflight[i]
    IN  /\ f.fetch = "add"
        /\ outcome = "ok" => f.accepted
        /\ IF outcome = "ok"
           THEN /\ sentMessagesRef' = SentSet(sentMessagesRef, f.added.id, f.added)
                /\ lastMarkAsReadIdRef' = f.added.id
                /\ lastMessageIdRef' = f.added.id
                /\ sendConfirmed' = sendConfirmed \cup
                                      {[messageId |-> f.messageId, added |-> f.added.id]}
                /\ LoadChangesStart(RemoveAt(inflight, i))
           ELSE /\ sentMessagesRef' = IF outcome = "throw"
                                      THEN SentDelete(sentMessagesRef, f.messageId)
                                      ELSE sentMessagesRef
                /\ error' = IF outcome = "throw" THEN "error" ELSE error
                /\ inflight' = RemoveAt(inflight, i)
                /\ UNCHANGED <<lastMarkAsReadIdRef, lastMessageIdRef, sendConfirmed,
                               loading, isUpdating>>
        /\ UNCHANGED <<srvVars, messagesRef, messagesByIdRef, lastChangeIdRef,
                       firstMessagesPageLoadedRef, chatConfig, hasMoreMessages,
                       consistentPivots, sockVars, typingVars>>

\* the response of the mark-as-read POST handled, lines 492-507
MarkDone(i, outcome) ==
    LET f == inflight[i]
    IN  /\ f.fetch = "mark"
        /\ IF outcome # "throw" /\ lastChangeIdRef # Nil
           THEN LoadChangesStart(RemoveAt(inflight, i))
           ELSE /\ inflight' = RemoveAt(inflight, i)
                /\ UNCHANGED <<loading, isUpdating, error>>
        /\ UNCHANGED <<srvVars, storeVars, lastMarkAsReadIdRef, chatConfig,
                       hasMoreMessages, sendConfirmed, consistentPivots, sockVars, typingVars>>

\* other participants of the chat write, edit and delete messages
ChatSrvCreate == SrvCreate /\ UNCHANGED <<storeVars, hookVars, consistentPivots, sockVars, typingVars>>

ChatSrvUpdate(id) == SrvUpdate(id) /\ UNCHANGED <<storeVars, hookVars, consistentPivots, sockVars, typingVars>>

ChatSrvDelete(id) == SrvDelete(id) /\ UNCHANGED <<storeVars, hookVars, consistentPivots, sockVars, typingVars>>

\* the chat as the hook finds it: InitMsgs messages, the read marker of the
\* configuration on none or on one of them
RECURSIVE InitLog(_)
InitLog(n) == IF n = 0 THEN <<>> ELSE Append(InitLog(n - 1), CreateChange(n, Msg(n, 1)))

Init ==
    /\ env = [maxMsg |-> ChatMaxMsg, maxChange |-> ChatMaxChange, netFails |-> FALSE,
             moreSlice |-> MoreSlice]
    /\ srvChanges = InitLog(InitMsgs)
    /\ nextId = InitMsgs + 1
    /\ \E lastRead \in 0..InitMsgs : HookInit(ChatConfig(lastRead, InitMsgs))

Next ==
    \/ ChatSrvCreate
    \/ \E id \in MsgIds : ChatSrvUpdate(id)
    \/ \E id \in MsgIds : ChatSrvDelete(id)
    \/ LoadFreshStateCall
    \/ LoadChangesCall
    \/ LoadMoreCall
    \/ \E accepted \in {TRUE, ~env.netFails}, sameId \in BOOLEAN : SendCall(accepted, sameId)
    \/ \E m \in Range(messages) : MarkAsReadCall(m)
    \/ \E i \in DOMAIN inflight, outcome \in Outcomes : MessagesDone(i, outcome)
    \/ \E i \in DOMAIN inflight, outcome \in Outcomes : ChangesDone(i, outcome)
    \/ \E i \in DOMAIN inflight, outcome \in Outcomes : AddDone(i, outcome)
    \/ \E i \in DOMAIN inflight, outcome \in Outcomes : MarkDone(i, outcome)

Spec == Init /\ [][Next]_vars


\* C2: in every reachable state of the hook each message id occurs at most once
\* in the canonical sequence.
C2_NoDuplicateIds == NoDuplicateIds(messagesRef)

\* the part of the store a change record acts on
ChangeView(st) ==
    <<st.messagesRef, st.messagesByIdRef, st.sentMessagesRef, st.lastChangeIdRef>>

\* C3: applying a change record a second time leaves the store as the first
\* application left it, for every change record of the server's log and every
\* reachable store.
C3_ChangeIdempotent ==
    \A k \in DOMAIN srvChanges :
        LET once == ApplyChanges(Store, <<srvChanges[k]>>)
        IN  ChangeView(ApplyChanges(once, <<srvChanges[k]>>)) = ChangeView(once)

\* the entries of the derived list that show the send s: under the client's id
\* or under the id the server confirmed
ShownAs(s) == {i \in DOMAIN messages : messages[i].id \in {s.messageId, s.added}}

\* C4: a message whose send succeeded (and that nobody deleted since) is in the
\* derived list exactly once, under the server-confirmed id.
C4_SentShownOnce ==
    \A s \in sendConfirmed :
        s.added \in DOMAIN SrvMsgs =>
            /\ Cardinality(ShownAs(s)) = 1
            /\ \A i \in ShownAs(s) : messages[i].id = s.added

\* createdAt of the message with this id
CreatedAt(id) == Msg(id, 0).createdAt

\* C5: markAsRead(m) with m created earlier than the last-marked message does
\* nothing: no step of markAsRead moves the pointer and issues a request for
\* such an m.
C5_OlderMarkIsNoOp ==
    [][\A m \in Range(messages) :
          (lastMarkAsReadIdRef # Nil /\ m.createdAt < CreatedAt(lastMarkAsReadIdRef))
              => ~MarkAsReadCall(m)]_vars

\* C28: markAsRead(m) moves no pointer and issues no request when m is the
\* last-marked message or is not newer than it by creation time; so a second
\* markAsRead of the same message issues no second request.
C28_RepeatedMarkIsNoOp ==
    [][\A m \in Range(messages) :
          (lastMarkAsReadIdRef # Nil /\ m.createdAt <= CreatedAt(lastMarkAsReadIdRef))
              => ~MarkAsReadCall(m)]_vars

\* the pointer names a message and the step moves it to a message created
\* earlier
PointerMovesBack ==
    /\ lastMarkAsReadIdRef # Nil
    /\ lastMarkAsReadIdRef' # Nil
    /\ CreatedAt(lastMarkAsReadIdRef') < CreatedAt(lastMarkAsReadIdRef)

\* C29: over the whole session (markAsRead, sendMessage, loadFreshState and
\* loadChanges) the last-marked pointer never moves from a message to one
\* created earlier.
C29_PointerMonotonic == [][~PointerMovesBack]_vars

\* the change feed has delivered the create record of this message: the
\* cursor is at or past it
FeedDelivered(id) ==
    \E k \in DOMAIN srvChanges :
        /\ srvChanges[k].operation = "create"
        /\ srvChanges[k].message.id = id
        /\ lastChangeIdRef # Nil
        /\ lastChangeIdRef >= k

\* C32: every pending send is resolved in the end: when a send has succeeded,
\* the change feed has delivered the confirmed message (before or after the
\* add-message response was handled) and no operation is in flight any more,
\* the pending-send map holds no entry for the message (one that nobody has
\* deleted since), under the id the client gave it or the one the server
\* confirmed.
C32_PendingSendResolved ==
    \A s \in sendConfirmed :
        (inflight = <<>> /\ FeedDelivered(s.added) /\ s.added \in DOMAIN SrvMsgs) =>
            /\ ~SentHas(sentMessagesRef, s.added)
            /\ ~SentHas(sentMessagesRef, s.messageId)

\* C33: every message of the canonical sequence is in the id index under its
\* id, and its slot holds the payload the index holds.
C33_SequenceIndexed ==
    \A i \in DOMAIN messagesRef :
        /\ MapHas(messagesByIdRef, messagesRef[i].id)
        /\ messagesByIdRef[messagesRef[i].id] = messagesRef[i]

\* C34: after a successful mergePage every message of the merged page is in
\* the canonical sequence, also one that an earlier create change had put in
\* the id index only, the contiguous-from-start flag being unset. Stated of
\* every messages response in flight, merged into the store as it is now.
C34_MergedPageShown ==
    \A k \in DOMAIN inflight :
        inflight[k].fetch = "messages" =>
        LET f == inflight[k]
            r == processNewMessages(StoreAtMerge(f), f.data, f.pageWith,
                                    f.sliceBefore, f.sliceAfter)
        IN  r.applied => Ids(f.data.messages) \subseteq Ids(r.st.messagesRef)

\* C35: the response of a loadMore, also one that arrives after an
\* interleaved operation has changed the store, removes no loaded message:
\* the ids of the canonical sequence after the merge include those before it.
C35_LoadMoreKeepsLoaded ==
    [][\A i \in DOMAIN inflight, outcome \in Outcomes :
          (inflight[i].fetch = "messages" /\ inflight[i].op = "more"
             /\ MessagesDone(i, outcome))
          => Ids(messagesRef) \subseteq Ids(messagesRef')]_vars

\* a loadFreshState or loadMoreMessages is waiting for its GET
Loading(fs) == \E i \in DOMAIN fs : fs[i].fetch = "messages"

\* a changes GET is in flight
FetchingChanges(fs) == \E i \in DOMAIN fs : fs[i].fetch = "changes"

\* a loadChanges is under way: its GET, or the reload it fell back to
Updating(fs) ==
    \E i \in DOMAIN fs :
        fs[i].fetch = "changes" \/ (fs[i].fetch = "messages" /\ fs[i].then = "updatingOff")

\* C40: loading is true whenever a loadFreshState or loadMore fetch is in
\* flight and isUpdating whenever a changes fetch is, also when several
\* overlap; each flag is false again once the last of its operations has
\* completed.
C40_FlagsFollowOperations ==
    [][/\ Loading(inflight') => loading'
       /\ FetchingChanges(inflight') => isUpdating'
       /\ (Loading(inflight) /\ ~Loading(inflight')) => ~loading'
       /\ (Updating(inflight) /\ ~Updating(inflight')) => ~isUpdating']_vars

\* ------------------------------------------------- the hook on a failing network
FaultMaxMsg == 2      \* message ids of the chat on the failing network
FaultMaxChange == 2   \* change records of the chat on the failing network

\* as Init, with requests that may be refused or thrown and a chat that may
\* have no changes endpoint (chat.messages_changes_url, part_000)
InitFaults ==
    /\ env = [maxMsg |-> FaultMaxMsg, maxChange |-> FaultMaxChange, netFails |-> TRUE,
             moreSlice |-> MoreSlice]
    /\ srvChanges = InitLog(InitMsgs)
    /\ nextId = InitMsgs + 1
    /\ \E lastRead \in 0..InitMsgs, url \in BOOLEAN :
           HookInit([ChatConfig(lastRead, InitMsgs) EXCEPT !.messages_changes_url = url])

SpecFaults == InitFaults /\ [][Next]_vars

\* the step leaves rest in flight and adds the GET of a full reload
\* (loadFreshState, lines 261-280)
ReloadStarted(rest) ==
    /\ Len(inflight') = Len(rest) + 1
    /\ SubSeq(inflight', 1, Len(rest)) = rest
    /\ Last(inflight').fetch = "messages"
    /\ Last(inflight').op = "fresh"

\* loadChanges has no cursor or no changes endpoint to use (line 314)
NoIncrementalSync == lastChangeIdRef = Nil \/ ~chatConfig.messages_changes_url

\* C17: loadChanges leaves no partial-failure state.  Called with no cursor
\* or no changes endpoint it sends no changes request and starts a full
\* reload; when the changes request throws or is answered with success false
\* (the too-old-cursor error included) no change of the response is applied
\* and a full reload is started.
C17_NoPartialFailure ==
    [][/\ (LoadChangesCall /\ NoIncrementalSync)
            => (ReloadStarted(inflight) /\ UNCHANGED storeVars)
       /\ \A i \in DOMAIN inflight :
            /\ (AddDone(i, "ok") /\ NoIncrementalSync)
                  => ReloadStarted(RemoveAt(inflight, i))
            /\ \A outcome \in Outcomes \ {"ok"} :
                  ChangesDone(i, outcome)
                      => (ReloadStarted(RemoveAt(inflight, i)) /\ UNCHANGED storeVars)]_vars

\* a refused or thrown changes request has started the reload of a store that
\* held messages and a cursor
C17_Witness ==
    /\ \E i \in DOMAIN inflight :
           /\ inflight[i].fetch = "messages"
           /\ inflight[i].op = "fresh"
           /\ inflight[i].then = "updatingOff"
    /\ Len(srvChanges) > lastChangeIdRef
    /\ lastChangeIdRef # Nil
    /\ Len(messagesRef) > 0

\* the page a full reload merges: the answer of its GET, or nothing when the
\* request failed, the page is empty or it lacks the pivot (lines 169-177, 297)
ReloadedPage(f, outcome) ==
    IF outcome = "ok" /\ ~PivotMissing(f.data.messages, f.pageWith)
    THEN f.data.messages ELSE <<>>

\* C18: when loadFreshState completes, the sequence and the index hold the
\* fetched page and nothing else (no message loaded before stays unless the
\* page has it; a page merged into the emptied store is the sequence, in page
\* order), and the cursor is the page's lastChangeId, unset when no page was
\* merged.
C18_ReloadLeavesOnlyThePage ==
    [][\A i \in DOMAIN inflight, outcome \in Outcomes :
          (inflight[i].fetch = "messages" /\ inflight[i].op = "fresh"
             /\ MessagesDone(i, outcome))
          => LET page == ReloadedPage(inflight[i], outcome)
             IN  /\ messagesRef' = page
                 /\ DOMAIN messagesByIdRef' = Ids(page)
                 /\ lastChangeIdRef' = IF page = <<>> THEN Nil
                                       ELSE inflight[i].data.lastChangeId]_vars

\* a full reload is about to complete on a store that holds a message the
\* fetched page lacks, under a cursor other than the page's
C18_Witness ==
    \E i \in DOMAIN inflight :
        /\ inflight[i].fetch = "messages"
        /\ inflight[i].op = "fresh"
        /\ Len(ReloadedPage(inflight[i], "ok")) > 0
        /\ Ids(messagesRef) \ Ids(inflight[i].data.messages) # {}
        /\ lastChangeIdRef # Nil
        /\ lastChangeIdRef # inflight[i].data.lastChangeId

\* C19: when the add-message request of sendMessage fails (it throws, or is
\* answered with success false or with no added message), the pending entry
\* of that send leaves the pending-send map, an error is surfaced, and the
\* sequence, the index and the cursor stay as they are.
C19_FailedSendDropsPending ==
    [][\A i \in DOMAIN inflight, outcome \in Outcomes \ {"ok"} :
          AddDone(i, outcome)
          => (/\ ~SentHas(sentMessagesRef', inflight[i].messageId)
              /\ error' # NoError
              /\ UNCHANGED <<messagesRef, messagesByIdRef, lastChangeIdRef>>)]_vars

\* the step handles the response of a full reload (loadFreshState, lines 280-306)
FullReloadDone ==
    \E i \in DOMAIN inflight, outcome \in Outcomes :
        /\ inflight[i].fetch = "messages"
        /\ inflight[i].op = "fresh"
        /\ MessagesDone(i, outcome)

\* C16: the incremental cursor is the highest change id observed since the
\* last full reload: no step other than the completion of a full reload
\* moves it to a lower change id.
C16_CursorNeverLowers ==
    [][FullReloadDone \/ lastChangeIdRef' >= lastChangeIdRef]_vars

\* the pending sends, most recently queued first (line 106-107)
PendingNewestFirst == Reverse([i \in DOMAIN sentMessagesRef |-> sentMessagesRef[i].msg])

\* the pending sends whose id the canonical index does not hold
Overlay == SelectSeq(PendingNewestFirst, LAMBDA m : ~MapHas(messagesByIdRef, m.id))

\* C20: the derived list is the pending sends whose id is not in the
\* canonical index, most recently queued first, followed by the canonical
\* sequence in its order, each id once; a pending send whose id the index
\* holds is not shown in the overlay position.
C20_OverlayThenCanonical ==
    IdSeq(messages) = IdSeq(Dedup(Overlay \o messagesRef, {}))

\* ------------------------------------------------ the hook on a long history
MorePage == 2   \* the page of loadMoreMessages, scaled down from MoreSlice
MoreMsgs == 4   \* messages of the chat at mount

\* as Init, on a chat that holds a latest page and a full page of
\* loadMoreMessages before it, or one message fewer
InitMore ==
    /\ \E n \in {MoreMsgs - 1, MoreMsgs} :
           /\ env = [maxMsg |-> MoreMsgs + 1, maxChange |-> MoreMsgs + 1, netFails |-> FALSE,
                     moreSlice |-> MorePage]
           /\ srvChanges = InitLog(n)
           /\ nextId = n + 1
    /\ HookInit(ChatConfig(Nil, Nil))

\* the operations that load messages, and another participant writing
NextMore ==
    \/ ChatSrvCreate
    \/ LoadFreshStateCall
    \/ LoadChangesCall
    \/ LoadMoreCall
    \/ \E i \in DOMAIN inflight, outcome \in Outcomes : MessagesDone(i, outcome)
    \/ \E i \in DOMAIN inflight, outcome \in Outcomes : ChangesDone(i, outcome)

SpecMore == InitMore /\ [][NextMore]_vars

\* the messages a step adds to the canonical sequence
AddedToSequence == Cardinality(Ids(messagesRef') \ Ids(messagesRef))

\* C21: loadMore fetches the page anchored at the tail id of the moment of the
\* call with sliceBefore = the page size (50) and merges it; when it completes
\* hasMore is false if the merge added fewer messages than the page size to
\* the sequence, and true otherwise.
C21_HasMoreTellsFullPage ==
    [][/\ LoadMoreCall
            => (/\ Last(inflight').pageWith = Last(messagesRef).id
                /\ Last(inflight').sliceBefore = env.moreSlice
                /\ Last(inflight').data = SrvPage(Last(messagesRef).id, env.moreSlice, Nil))
       /\ \A i \in DOMAIN inflight, outcome \in Outcomes :
            (inflight[i].fetch = "messages" /\ inflight[i].op = "more"
               /\ MessagesDone(i, outcome))
            => (hasMoreMessages' <=> AddedToSequence >= env.moreSlice)]_vars

\* C24: the responses of overlapping loads (loadMore, loadChanges,
\* loadFreshState) are applied in request order or dropped as stale: the
\* response of a request issued before one whose response has already been
\* applied changes nothing in the store.
C24_StaleResponsesDropped ==
    [][\A i \in DOMAIN inflight, outcome \in Outcomes :
          (inflight[i].fetch \in {"messages", "changes"} /\ inflight[i].overtaken
             /\ (MessagesDone(i, outcome) \/ ChangesDone(i, outcome)))
          => UNCHANGED storeVars]_vars

\* the change records of the server's log with this operation
LogOf(operation) == {c \in Range(srvChanges) : c.operation = operation}

\* C25: a create change record always puts its message into the id index and
\* removes the pending send with the same id; the message is inserted at the
\* head of the sequence if and only if the contiguous-from-start flag is set
\* at that moment, and otherwise the sequence is unchanged.
C25_CreateGatedByFlag ==
    \A c \in LogOf("create") :
        LET r == applyChange(Store, c)
        IN  /\ MapHas(r.messagesByIdRef, c.message.id)
            /\ r.messagesByIdRef[c.message.id] = c.message
            /\ ~SentHas(r.sentMessagesRef, c.message.id)
            /\ r.messagesRef = IF firstMessagesPageLoadedRef
                               THEN <<c.message>> \o messagesRef
                               ELSE messagesRef

\* the flag is unset on a store that holds messages, and the log has the
\* create of a message not yet indexed that is a pending send
C25_Witness ==
    /\ ~firstMessagesPageLoadedRef
    /\ Len(messagesRef) > 0
    /\ \E c \in LogOf("create") :
           /\ ~MapHas(messagesByIdRef, c.message.id)
           /\ SentHas(sentMessagesRef, c.message.id)

\* C26: a delete change record removes the id from the id index and from the
\* sequence and keeps all other messages in their order; an update change
\* record replaces the indexed entry and, if the id is in the sequence,
\* replaces its slot (the first that holds the id) and changes neither the
\* length nor the order of the sequence.
C26_DeleteAndUpdateInPlace ==
    /\ \A c \in LogOf("delete") :
           LET r == applyChange(Store, c)
           IN  /\ ~MapHas(r.messagesByIdRef, c.messageId)
               /\ \A id \in DOMAIN messagesByIdRef \ {c.messageId} :
                      /\ MapHas(r.messagesByIdRef, id)
                      /\ r.messagesByIdRef[id] = messagesByIdRef[id]
               /\ r.messagesRef = SelectSeq(messagesRef, LAMBDA m : m.id # c.messageId)
    /\ \A c \in LogOf("update") :
           LET r == applyChange(Store, c)
               k == FindIndex(messagesRef, c.message.id)
           IN  /\ r.messagesByIdRef[c.message.id] = c.message
               /\ Len(r.messagesRef) = Len(messagesRef)
               /\ IdSeq(r.messagesRef) = IdSeq(messagesRef)
               /\ \A i \in DOMAIN messagesRef :
                      r.messagesRef[i] = IF i = k THEN c.message ELSE messagesRef[i]

\* the log has the delete of a message that stands between two others in the
\* sequence
C26_Witness ==
    \E c \in LogOf("delete") :
        /\ MapHas(messagesByIdRef, c.messageId)
        /\ FindIndex(messagesRef, c.messageId) \in 2..(Len(messagesRef) - 1)

\* the store the loop of processNewMessages starts from: emptied of sequence
\* and index when the merge is a replace (lines 209-213)
LoopBase(st, newMessages, pageWith, sliceBefore, sliceAfter) ==
    IF AddType(st, newMessages, pageWith, sliceBefore, sliceAfter) = "replace"
    THEN [st EXCEPT !.messagesRef = <<>>, !.messagesByIdRef = EmptyMap]
    ELSE st

\* the message of the page with this id
PageMessage(newMessages, id) == newMessages[FindIndex(newMessages, id)]

\* C27: in mergePage a page message whose id is indexed with another payload
\* replaces the index entry and its slot of the sequence, in place; a page
\* message that was not indexed is added to the index and to the sequence and
\* removes the pending send with its id; a page message identical to the
\* indexed one changes nothing (so the sequence keeps its length but for the
\* added messages, and no other pending send is removed). Stated of every
\* messages response in flight, merged into the store as it is now.
C27_MergePerMessage ==
    \A k \in DOMAIN inflight :
        inflight[k].fetch = "messages" =>
        LET f == inflight[k]
            st0 == StoreAtMerge(f)
            r == processNewMessages(st0, f.data, f.pageWith, f.sliceBefore, f.sliceAfter)
            base == LoopBase(st0, f.data.messages, f.pageWith, f.sliceBefore, f.sliceAfter)
            fresh == NewIds(base, f.data.messages)
            mode == AddType(base, f.data.messages, f.pageWith, f.sliceBefore, f.sliceAfter)
            shift == IF mode = "prepend" THEN Len(fresh) ELSE 0
            Changed(id) == /\ id \in Ids(f.data.messages)
                           /\ MapHas(base.messagesByIdRef, id)
                           /\ base.messagesByIdRef[id] # PageMessage(f.data.messages, id)
        IN  r.applied =>
              /\ \A i \in DOMAIN f.data.messages :
                    r.st.messagesByIdRef[f.data.messages[i].id] = f.data.messages[i]
              /\ \A id \in DOMAIN base.messagesByIdRef \ Ids(f.data.messages) :
                    r.st.messagesByIdRef[id] = base.messagesByIdRef[id]
              /\ Len(r.st.messagesRef) = Len(base.messagesRef) + Len(fresh)
              /\ \A i \in DOMAIN base.messagesRef :
                    r.st.messagesRef[i + shift] =
                        IF Changed(base.messagesRef[i].id)
                        THEN PageMessage(f.data.messages, base.messagesRef[i].id)
                        ELSE base.messagesRef[i]
              /\ \A i \in DOMAIN fresh :
                    /\ fresh[i] \in Ids(r.st.messagesRef)
                    /\ ~SentHas(r.st.sentMessagesRef, fresh[i])
              /\ \A i \in DOMAIN sentMessagesRef :
                    SentHas(r.st.sentMessagesRef, sentMessagesRef[i].key)
                        \/ sentMessagesRef[i].key \in Range(fresh)

\* one response in flight holds a shown message under another payload and is
\* merged without a replace, and one holds an unindexed message that is a
\* pending send
C27_Witness ==
    /\ \E k \in DOMAIN inflight :
          LET f == inflight[k]
          IN  /\ f.fetch = "messages" /\ f.op = "more"
              /\ processNewMessages(Store, f.data, f.pageWith, f.sliceBefore, f.sliceAfter).applied
              /\ AddType(Store, f.data.messages, f.pageWith, f.sliceBefore, f.sliceAfter) # "replace"
              /\ \E i \in DOMAIN f.data.messages, j \in DOMAIN messagesRef :
                     /\ messagesRef[j].id = f.data.messages[i].id
                     /\ messagesRef[j] # f.data.messages[i]
    /\ \E k \in DOMAIN inflight :
          LET f == inflight[k]
          IN  /\ f.fetch = "messages"
              /\ \E i \in DOMAIN f.data.messages :
                     /\ ~MapHas(StoreAtMerge(f).messagesByIdRef, f.data.messages[i].id)
                     /\ SentHas(sentMessagesRef, f.data.messages[i].id)



\* ============================================================ SocketStore
MaxPending == 2    \* emit calls queued while there is no connection
MaxData == 2       \* payloads of emit calls are 1..MaxData
MaxHold == 2       \* join disposers outstanding per room
MaxOn == 2         \* callbacks registered with on() by the application
MaxKey == 1        \* channel keys (socket ids) are 1..MaxKey
MaxFn == 2         \* listener functions passed to subscribeToSocket
MaxHandle == 2     \* calls of subscribeToSocket

Keys == 1..MaxKey

Fns == 1..MaxFn

\* an event handed to _io.emit; the payload is a list (room names, a socket
\* id, a number)
Ev(event, data) == [event |-> event, data |-> data]

\* an entry of SocketStore.listeners: the event, and the callback, which is
\* either the application's (slot) or a subscription object's (owner)
\* delay: the ms given to on(); with ms > 0 the attached callback is the
\* function debounce made, not the callback itself
ListenerD(event, owner, slot, delay) ==
    [event |-> event, owner |-> owner, slot |-> slot, delay |-> delay]

Listener(event, owner, slot) == ListenerD(event, owner, slot, 0)

\* the handler _reconnect attaches itself: join the rooms on 'connect'
JoinOnConnect == Listener("connect", 0, 0)

Sock ==
    [io |-> io, connected |-> connected, ioHandlers |-> ioHandlers,
     listeners |-> listeners, rooms |-> rooms, pendingEmits |-> pendingEmits,
     socketSubscriptions |-> socketSubscriptions, subObjs |-> subObjs,
     emitted |-> <<>>, acksDue |-> acksDue, notified |-> <<>>]

SetSock(s) ==
    /\ io' = s.io
    /\ connected' = s.connected
    /\ ioHandlers' = s.ioHandlers
    /\ listeners' = s.listeners
    /\ rooms' = s.rooms
    /\ pendingEmits' = s.pendingEmits
    /\ socketSubscriptions' = s.socketSubscriptions
    /\ subObjs' = s.subObjs
    /\ emitted' = s.emitted
    /\ acksDue' = s.acksDue
    /\ notified' = s.notified

SelectNot(seq, x) == SelectSeq(seq, LAMBDA e : e # x)

\* the elements of a set of numbers in ascending order (Object.keys lists
\* the rooms in the order they were entered; the claims do not depend on it)
RECURSIVE SetToSeq(_)
SetToSeq(S) ==
    IF S = {} THEN <<>>
    ELSE LET m == CHOOSE x \in S : \A y \in S : x <= y
         IN  <<m>> \o SetToSeq(S \ {m})

\* _io.emit
ioEmit(s, e) == [s EXCEPT !.emitted = Append(@, e)]

\* SocketStore.emit
emit(s, e) ==
    IF s.io = Nil
    THEN [s EXCEPT !.pendingEmits = Append(@, e)]
    ELSE ioEmit(s, e)

RECURSIVE EmitAll(_, _, _)
EmitAll(s, emits, i) ==
    IF i > Len(emits) THEN s ELSE EmitAll(emit(s, emits[i]), emits, i + 1)

\* _reconnect without line 70: the queue is handed over and kept
reconnectKeepsQueue(s) ==
    LET fresh == [s EXCEPT !.io = 1, !.connected = FALSE,
                           !.ioHandlers = s.listeners \o <<JoinOnConnect>>,
                           !.acksDue = {}]
    IN  [EmitAll(fresh, s.pendingEmits, 1) EXCEPT !.pendingEmits = s.pendingEmits]

\* SocketStore._reconnect
reconnect(s) ==
    LET fresh == [s EXCEPT !.io = 1, !.connected = FALSE,
                           !.ioHandlers = s.listeners \o <<JoinOnConnect>>,
                           !.pendingEmits = <<>>, !.acksDue = {}]
    IN  EmitAll(fresh, s.pendingEmits, 1)

\* SocketStore.on, with delay 0
on(s, l) ==
    [s EXCEPT !.listeners = Append(@, l),
              !.ioHandlers = IF s.io # Nil THEN Append(@, l) ELSE @]

\* the disposer on() returns: _io.off(event, cb) is given the callback, which
\* is the attached function only when debounce returned it (delay 0)
onDisposer(s, l) ==
    [s EXCEPT !.listeners = SelectNot(@, l),
              !.ioHandlers = IF s.io # Nil /\ l.delay = 0 THEN SelectNot(@, l) ELSE @]

\* the callback a SocketSubscription passes to onConnect; the server answers
\* the event through the acknowledgment callback given with it
subscribeOnConnect(s, o) ==
    [emit(s, Ev("socket/subscribe", <<s.subObjs[o].key>>))
        EXCEPT !.acksDue = IF s.io # Nil THEN @ \cup {o} ELSE @]

\* SocketStore.onConnect
onConnect(s, o) ==
    on(IF s.io # Nil /\ s.connected THEN subscribeOnConnect(s, o) ELSE s,
       Listener("connect", o, 0))

\* one handler of the 'connect' event
RunConnectHandler(s, h) ==
    IF h = JoinOnConnect
    THEN IF DOMAIN s.rooms # {}
         THEN ioEmit(s, Ev("join", SetToSeq(DOMAIN s.rooms)))
         ELSE s
    ELSE IF h.event = "connect" /\ h.owner # 0
         THEN subscribeOnConnect(s, h.owner)
         ELSE s

RECURSIVE RunConnect(_, _, _)
RunConnect(s, handlers, i) ==
    IF i > Len(handlers) THEN s
    ELSE RunConnect(RunConnectHandler(s, handlers[i]), handlers, i + 1)


\* SocketStore.join; the call throws at _io.emit when there is no connection,
\* after the room has been entered in rooms, and then returns no disposer
join(s, roomName) ==
    IF MapHas(s.rooms, roomName) /\ s.rooms[roomName] # 0
    THEN [s EXCEPT !.rooms = MapSet(@, roomName, @[roomName] + 1)]
    ELSE LET entered == [s EXCEPT !.rooms = MapSet(@, roomName, 1)]
         IN  IF s.io = Nil THEN entered
             ELSE ioEmit(entered, Ev("join", <<roomName>>))

joinThrows(s, roomName) ==
    /\ ~(MapHas(s.rooms, roomName) /\ s.rooms[roomName] # 0)
    /\ s.io = Nil

\* SocketStore.leave
leaveEmit(s, roomName) ==
    IF s.rooms[roomName] - 1 = 0 /\ s.io # Nil
    THEN ioEmit(s, Ev("leave", <<roomName>>))
    ELSE s

leave(s, roomName) ==
    IF MapHas(s.rooms, roomName) /\ s.rooms[roomName] > 0
    THEN [leaveEmit(s, roomName) EXCEPT !.rooms = MapDelete(@, roomName)]
    ELSE s

\* SocketSubscription as constructed
NewSubscription(key) ==
    [key |-> key, listeners |-> <<>>, disposers |-> <<>>, lastUpdatedValue |-> Nil]

\* SocketSubscription.open
open(s, o) ==
    LET a == onConnect(s, o)
        b == on(a, Listener("updated", o, 0))
    IN  [b EXCEPT !.subObjs[o].disposers = <<"connect", "unsubscribe", "updated">>]

\* one of the disposers open() collected
RunDisposer(s, o, d) ==
    IF d = "unsubscribe"
    THEN emit(s, Ev("socket/unsubscribe", <<s.subObjs[o].key>>))
    ELSE onDisposer(s, Listener(d, o, 0))

RECURSIVE RunDisposers(_, _, _, _)
RunDisposers(s, o, ds, i) ==
    IF i > Len(ds) THEN s
    ELSE RunDisposers(RunDisposer(s, o, ds[i]), o, ds, i + 1)

\* SocketSubscription.close, with the onClose subscribeToSocket passes
close(s, o) ==
    LET disposed == RunDisposers(s, o, s.subObjs[o].disposers, 1)
    IN  [disposed EXCEPT !.subObjs[o].disposers = <<>>,
                         !.socketSubscriptions = MapDelete(@, s.subObjs[o].key)]

\* SocketSubscription.listen
listen(s, o, listener) ==
    LET pushed == [s EXCEPT !.subObjs[o].listeners = Append(@, listener)]
    IN  IF Len(pushed.subObjs[o].listeners) = 1 THEN open(pushed, o) ELSE pushed

\* the function listen() returns
unlisten(s, o, listener) ==
    LET removed == [s EXCEPT !.subObjs[o].listeners = SelectNot(@, listener)]
    IN  IF Len(removed.subObjs[o].listeners) = 0 THEN close(removed, o) ELSE removed

\* SocketStore.subscribeToSocket, with delay 0: the listener is onChange itself
subscribeToSocket(s, socketId, onChange) ==
    LET created ==
            IF MapHas(s.socketSubscriptions, socketId) THEN s
            ELSE [s EXCEPT !.subObjs = Append(@, NewSubscription(socketId)),
                           !.socketSubscriptions =
                               MapSet(@, socketId, Len(s.subObjs) + 1)]
    IN  listen(created, created.socketSubscriptions[socketId], onChange)


\* SocketSubscription._emitChanged
emitChanged(s, o) == [s EXCEPT !.notified = @ \o s.subObjs[o].listeners]

\* the acknowledgment callback of 'socket/subscribe' (lines 339-348)
subscribeAck(s, o, data) ==
    LET last == s.subObjs[o].lastUpdatedValue
        told == IF last # Nil /\ data # Nil /\ last # data THEN emitChanged(s, o) ELSE s
    IN  [told EXCEPT !.subObjs[o].lastUpdatedValue = data]

\* the handler of 'socket/<id>/updated' (lines 356-359)
updated(s, o, data) ==
    emitChanged([s EXCEPT !.subObjs[o].lastUpdatedValue = data], o)

chatVars == <<srvVars, storeVars, hookVars, consistentPivots>>

\* setToken / setBaseURL
Reconnect ==
    /\ SetSock(reconnect(Sock))
    /\ UNCHANGED <<holders, handles, chatVars, typingVars>>

\* the connection reaches connected: its 'connect' handlers run in the order
\* they were attached
IoConnect ==
    /\ io # Nil
    /\ ~connected
    /\ SetSock(RunConnect([Sock EXCEPT !.connected = TRUE], ioHandlers, 1))
    /\ UNCHANGED <<holders, handles, chatVars, typingVars>>

\* the connection drops; the library connects the same object again later
IoDisconnect ==
    /\ io # Nil
    /\ connected
    /\ SetSock([Sock EXCEPT !.connected = FALSE])
    /\ UNCHANGED <<holders, handles, chatVars, typingVars>>

\* the application calls emit
Emit(d) ==
    /\ io = Nil => Len(pendingEmits) < MaxPending
    /\ SetSock(emit(Sock, Ev("msg", <<d>>)))
    /\ UNCHANGED <<holders, handles, chatVars, typingVars>>

\* the application calls on() with a callback of its own
On(slot) ==
    /\ \A l \in Range(listeners) : l.slot # slot
    /\ SetSock(on(Sock, Listener("msg", 0, slot)))
    /\ UNCHANGED <<holders, handles, chatVars, typingVars>>

\* the application calls the disposer on() returned
OnDispose(slot) ==
    /\ \E l \in Range(listeners) : l.slot = slot
    /\ SetSock(onDisposer(Sock, Listener("msg", 0, slot)))
    /\ UNCHANGED <<holders, handles, chatVars, typingVars>>

\* the application calls join
Join(roomName) ==
    /\ holders[roomName] < MaxHold
    /\ SetSock(join(Sock, roomName))
    /\ holders' = IF joinThrows(Sock, roomName) THEN holders
                  ELSE [holders EXCEPT ![roomName] = @ + 1]
    /\ UNCHANGED <<handles, chatVars, typingVars>>

\* the application calls a disposer join returned, for the first time
Release(roomName) ==
    /\ holders[roomName] > 0
    /\ SetSock(leave(Sock, roomName))
    /\ holders' = [holders EXCEPT ![roomName] = @ - 1]
    /\ UNCHANGED <<handles, chatVars, typingVars>>

\* the application calls subscribeToSocket
Subscribe(socketId, onChange) ==
    /\ Len(handles) < MaxHandle
    /\ LET s == subscribeToSocket(Sock, socketId, onChange)
       IN  /\ SetSock(s)
           /\ handles' = Append(handles, [obj |-> s.socketSubscriptions[socketId],
                                          listener |-> onChange, called |-> FALSE])
    /\ UNCHANGED <<holders, chatVars, typingVars>>

\* the application calls a function subscribeToSocket returned; nothing
\* keeps it from calling the same function again
Unsubscribe(h) ==
    /\ SetSock(unlisten(Sock, handles[h].obj, handles[h].listener))
    /\ handles' = [handles EXCEPT ![h].called = TRUE]
    /\ UNCHANGED <<holders, chatVars, typingVars>>

\* the server acknowledges a 'socket/subscribe' with the value of the socket
\* (or with nothing)
SubscribeAck(o, data) ==
    /\ o \in acksDue
    /\ SetSock(subscribeAck([Sock EXCEPT !.acksDue = @ \ {o}], o, data))
    /\ UNCHANGED <<holders, handles, chatVars, typingVars>>

\* the server pushes 'socket/<id>/updated' to the connection
Updated(o, data) ==
    /\ io # Nil
    /\ connected
    /\ Listener("updated", o, 0) \in Range(ioHandlers)
    /\ SetSock(updated(Sock, o, data))
    /\ UNCHANGED <<holders, handles, chatVars, typingVars>>

InitRealtime ==
    /\ env = [maxMsg |-> 0, maxChange |-> 0, netFails |-> FALSE,
             moreSlice |-> MoreSlice]
    /\ srvChanges = <<>>
    /\ nextId = 1
    /\ HookInit(ChatConfig(Nil, Nil))

\* the connection with listeners and rooms
NextRooms ==
    \/ Reconnect
    \/ IoConnect
    \/ IoDisconnect
    \/ \E slot \in 1..MaxOn : On(slot)
    \/ \E slot \in 1..MaxOn : OnDispose(slot)
    \/ \E roomName \in Rooms : Join(roomName)
    \/ \E roomName \in Rooms : Release(roomName)

SpecRooms == InitRealtime /\ [][NextRooms]_vars

\* the connection with emit calls and socket subscriptions
NextSock ==
    \/ Reconnect
    \/ IoConnect
    \/ IoDisconnect
    \/ \E d \in 1..MaxData : Emit(d)
    \/ \E socketId \in Keys, onChange \in Fns : Subscribe(socketId, onChange)
    \/ \E h \in DOMAIN handles : Unsubscribe(h)

SpecSock == InitRealtime /\ [][NextSock]_vars

MaxValue == 2      \* the values of a socket are 1..MaxValue

\* the connection with socket subscriptions and what the server sends them
NextChannel ==
    \/ Reconnect
    \/ IoConnect
    \/ IoDisconnect
    \/ \E socketId \in Keys, onChange \in Fns : Subscribe(socketId, onChange)
    \/ \E h \in DOMAIN handles : Unsubscribe(h)
    \/ \E o \in DOMAIN subObjs, data \in 0..MaxValue : SubscribeAck(o, data)
    \/ \E o \in DOMAIN subObjs, data \in 1..MaxValue : Updated(o, data)

SpecChannel == InitRealtime /\ [][NextChannel]_vars

\* ------------------------------------------------------------------ claims
Count(seq, x) == Cardinality({i \in DOMAIN seq : seq[i] = x})

HeldRooms == {r \in Rooms : holders[r] > 0}

\* C7: a reconnect attaches every still-registered listener exactly once to
\* the new connection, and when the connection reaches connected a join is
\* emitted that contains every held room (a room with an outstanding holder)
\* exactly once.
C7_ReconnectReplays ==
    [][/\ Reconnect => \A l \in Range(listeners) : Count(ioHandlers', l) = 1
       /\ (IoConnect /\ HeldRooms # {}) =>
              \E i \in DOMAIN emitted' :
                  /\ emitted'[i].event = "join"
                  /\ \A r \in HeldRooms : Count(emitted'[i].data, r) = 1]_vars

\* C8: for each room, a step of join emits a remote 'join' for it only when
\* the number of outstanding holders goes from 0 to 1, and a release emits a
\* remote 'leave' only when it goes from N to 0.
C8_JoinLeaveOnTransitions ==
    [][\A r \in Rooms :
          /\ (Join(r) /\ Ev("join", <<r>>) \in Range(emitted'))
                 => (holders[r] = 0 /\ holders'[r] = 1)
          /\ (Release(r) /\ Ev("leave", <<r>>) \in Range(emitted'))
                 => (holders[r] >= 1 /\ holders'[r] = 0)]_vars

\* the rooms of the join a connection emits when it reaches connected
RoomsRejoined(s) ==
    UNION {Range(e.data) : e \in {x \in Range(RunConnectHandler(s, JoinOnConnect).emitted) :
                                      x.event = "join"}}

\* C31: a room joined k >= 2 times and released fewer than k times is still
\* held: after a release that leaves a holder, the join of the next connection
\* includes the room and one more join of it emits no remote join.
C31_PartlyReleasedStillHeld ==
    [][\A r \in Rooms :
          (Release(r) /\ holders[r] >= 2) =>
              /\ r \in RoomsRejoined(Sock')
              /\ Ev("join", <<r>>) \notin Range(join(Sock', r).emitted)]_vars

\* C39: a join while there is no connection does not throw: the room is
\* entered as held, the caller gets a disposer (one more holder), and the join
\* of the next connection includes the room.
C39_JoinWithoutConnection ==
    [][\A r \in Rooms :
          (io = Nil /\ Join(r)) =>
              /\ ~joinThrows(Sock, r)
              /\ holders'[r] = holders[r] + 1
              /\ r \in RoomsRejoined(Sock')]_vars

IsPrefix(a, b) == Len(a) <= Len(b) /\ SubSeq(b, 1, Len(a)) = a

\* C9: while there is no connection every emit call is added at the end of
\* the queue and nothing is handed to a connection; the step that creates
\* the first connection hands the whole queue to it, in call order, and
\* empties it; from then on the queue stays empty, so a later reconnect hands
\* over nothing again.
C9_QueuedEmitsFlushedOnce ==
    [][/\ (io = Nil /\ io' = Nil) =>
              (IsPrefix(pendingEmits, pendingEmits') /\ emitted' = <<>>)
       /\ (io = Nil /\ io' # Nil) =>
              (emitted' = pendingEmits /\ pendingEmits' = <<>>)
       /\ io # Nil => (io' # Nil /\ pendingEmits = <<>> /\ pendingEmits' = <<>>)
       /\ (io # Nil /\ Reconnect) => emitted' = <<>>]_vars

\* two different queued emits have just been handed to the first connection
C9_Witness ==
    /\ io # Nil
    /\ pendingEmits = <<>>
    /\ emitted = <<Ev("msg", <<2>>), Ev("msg", <<1>>)>>

\* the subscribeToSocket calls for a key whose returned function has not
\* been called yet
Outstanding(hs, key) ==
    Cardinality({h \in DOMAIN hs : ~hs[h].called /\ subObjs[hs[h].obj].key = key})

\* the calls of SocketStore.emit a step other than a reconnect has made
EmitCalls ==
    IF io # Nil THEN emitted'
    ELSE SubSeq(pendingEmits', Len(pendingEmits) + 1, Len(pendingEmits'))

\* C10: for each channel key, the remote subscribe is sent once when a
\* connection reaches connected while a listener is subscribed, once by the
\* first subscribe on a connected connection and by no later one, and the
\* remote unsubscribe is sent once by the call that detaches the last
\* listener and by no other.
C10_OneRemoteSubscription ==
    [][\A k \in Keys :
          /\ (IoConnect /\ Outstanding(handles, k) > 0)
                 => Count(emitted', Ev("socket/subscribe", <<k>>)) = 1
          /\ (\E f \in Fns : Subscribe(k, f))
                 => Count(emitted', Ev("socket/subscribe", <<k>>))
                        = IF connected /\ Outstanding(handles, k) = 0 THEN 1 ELSE 0
          /\ (\E h \in DOMAIN handles : Unsubscribe(h))
                 => Count(EmitCalls, Ev("socket/unsubscribe", <<k>>))
                        = IF Outstanding(handles, k) > 0 /\ Outstanding(handles', k) = 0
                          THEN 1 ELSE 0]_vars


\* the subscription objects of a key that have a listener
LiveSubs(objs, key) ==
    {o \in DOMAIN objs : objs[o].key = key /\ objs[o].listeners # <<>>}

\* C36: a call of an unsubscribe function after its first call changes
\* nothing: it leaves the registry, the subscription objects and the
\* listeners as they are and emits nothing, also when the key's subscription
\* has been torn down and made again in between; and a key has at most one
\* live subscription object.
C36_RepeatedUnsubscribeIsNoOp ==
    [][/\ \A h \in DOMAIN handles :
              (handles[h].called /\ Unsubscribe(h)) =>
                  /\ socketSubscriptions' = socketSubscriptions
                  /\ subObjs' = subObjs
                  /\ listeners' = listeners
                  /\ EmitCalls = <<>>
       /\ \A k \in Keys : Cardinality(LiveSubs(subObjs', k)) <= 1]_vars

\* another subscribe call, not yet undone, gave the same function to the
\* same subscription object
SubscribedTwice(h) ==
    \E g \in DOMAIN handles \ {h} :
        /\ ~handles[g].called
        /\ handles[g].obj = handles[h].obj
        /\ handles[g].listener = handles[h].listener

\* C37: each subscribe call is one reference, also when the same function is
\* given twice for a key: the first unsubscribe of the two leaves the function
\* among the listeners that updates invoke and sends no remote unsubscribe.
C37_SameListenerCountedTwice ==
    [][\A h \in DOMAIN handles :
          (~handles[h].called /\ SubscribedTwice(h) /\ Unsubscribe(h)) =>
              /\ handles[h].listener \in Range(subObjs'[handles[h].obj].listeners)
              /\ \A e \in Range(EmitCalls) : e.event # "socket/unsubscribe"]_vars

\* ====================================================== TypingSubscription
MaxPeer == 2       \* the other users are 1..MaxPeer
MaxStamp == 2      \* typedAt and lastMessageAt are server times 1..MaxStamp
TypingExpiry == 10 \* seconds

SelfUid == 0       \* typingData.uid, the local user

Peers == 1..MaxPeer

\* a pulse may come without the lastMessageAt field, or with null in it
Absent == -1

Null == 0

TypedAts == 1..MaxStamp

LastMessageAts == {Absent, Null} \cup (1..MaxStamp)

\* the display name a pulse carries for a user
Name(uid) == uid

\* a 'typing/update/<id>' payload
Pulse(uid, typedAt, lastMessageAt) ==
    [uid |-> uid, name |-> Name(uid), typedAt |-> typedAt,
     lastMessageAt |-> lastMessageAt]

TypingIndex(ts, uid) == FindIndex([i \in DOMAIN ts |-> [id |-> ts[i].uid]], uid)

\* the entry made from the pulse alone, whatever the entry before it held
SpreadPulseOnly(old, hasOld, value) ==
    [uid |-> value.uid, name |-> value.name, typedAt |-> value.typedAt,
     lastMessageAt |-> value.lastMessageAt,
     timeoutHandle |-> 0]

\* {...this.typings.get(uid), ...value, timeoutHandle}: the fields of the
\* pulse laid over the fields of the entry, and a timer just set
Spread(old, hasOld, value) ==
    [uid |-> value.uid, name |-> value.name, typedAt |-> value.typedAt,
     lastMessageAt |-> IF value.lastMessageAt = Absent /\ hasOld
                       THEN old.lastMessageAt
                       ELSE value.lastMessageAt,
     timeoutHandle |-> 0]

\* Map.set: a key already present keeps its place
TypingSet(ts, data) ==
    LET i == TypingIndex(ts, data.uid)
    IN  IF i = 0 THEN Append(ts, data) ELSE [ts EXCEPT ![i] = data]

TypingDelete(ts, uid) == SelectSeq(ts, LAMBDA t : t.uid # uid)

\* the filter of _emitTypings
IsTyping(t) ==
    \/ t.lastMessageAt = Absent
    \/ t.lastMessageAt = Null
    \/ t.lastMessageAt < t.typedAt

\* TypingSubscription._emitTypings: the names handed to the listener
emitTypings(ts) ==
    LET shown == SelectSeq(ts, IsTyping)
    IN  [i \in DOMAIN shown |-> shown[i].name]

\* TypingSubscription._onTypingChange
onTypingChange(ts, value) ==
    LET i == TypingIndex(ts, value.uid)
        old == IF i = 0 THEN value ELSE ts[i]
    IN  TypingSet(ts, Spread(old, i # 0, value))

\* a timer of a peer, set so many seconds ago
Timer(uid, age) == [uid |-> uid, age |-> age]

\* a clearTimeout that leaves the timer pending
ClearNothing(ts, tms, uid) == tms

\* lines 270-275: clearTimeout of the handle the peer's entry holds, if there
\* is an entry and it holds one
ClearTimeout(ts, tms, uid) ==
    LET i == TypingIndex(ts, uid)
    IN  IF i # 0 THEN tms \ {Timer(uid, ts[i].timeoutHandle)} ELSE tms

\* lines 279-282: setTimeout(..., 10000)
SetTimeout(tms, uid) == tms \cup {Timer(uid, 0)}

sockAndChat == <<sockVars, chatVars>>

\* a pulse arrives on 'typing/update/<id>' (lines 253-257)
TypingUpdate(value) ==
    /\ IF value.uid # SelfUid
       THEN /\ typings' = onTypingChange(typings, value)
            /\ timers' = SetTimeout(ClearTimeout(typings, timers, value.uid), value.uid)
            /\ typingNames' = emitTypings(typings')
       ELSE UNCHANGED <<typings, typingNames, timers>>
    /\ UNCHANGED <<timerVars, sockAndChat>>

\* the timer of an entry fires, 10 seconds after it was set (lines 279-282)
TypingTimeout(uid) ==
    /\ Timer(uid, TypingExpiry) \in timers
    /\ timers' = timers \ {Timer(uid, TypingExpiry)}
    /\ typings' = TypingDelete(typings, uid)
    /\ typingNames' = emitTypings(typings')
    /\ UNCHANGED <<timerVars, sockAndChat>>

\* a second passes; a timer that is due fires first
Tick ==
    /\ typings # <<>>
    /\ \A t \in timers : t.age < TypingExpiry
    /\ typings' = [i \in DOMAIN typings |->
                      [typings[i] EXCEPT !.timeoutHandle = @ + 1]]
    /\ timers' = {Timer(t.uid, t.age + 1) : t \in timers}
    /\ UNCHANGED <<typingNames, timerVars, sockAndChat>>

NextTyping ==
    \/ \E uid \in {SelfUid} \cup Peers, typedAt \in TypedAts, lastMessageAt \in LastMessageAts :
           TypingUpdate(Pulse(uid, typedAt, lastMessageAt))
    \/ \E uid \in Peers : TypingTimeout(uid)
    \/ Tick

SpecTyping == InitRealtime /\ [][NextTyping]_vars


\* ------------------------------------------------------------------ claims
Listed(names, uid) == Name(uid) \in Range(names)

\* what the filter makes of a lastMessageAt and a typedAt
Shows(lastMessageAt, typedAt) ==
    lastMessageAt \in {Absent, Null} \/ lastMessageAt < typedAt

\* a listed peer has an entry, made by a pulse at most 10 seconds ago
TimerHolds(ts, names) ==
    \A uid \in Peers :
        Listed(names, uid) =>
            \E i \in DOMAIN ts : ts[i].uid = uid /\ ts[i].timeoutHandle <= TypingExpiry

Inherited(ts, uid, lastMessageAt) ==
    LET i == TypingIndex(ts, uid)
    IN  IF lastMessageAt = Absent /\ i # 0 THEN ts[i].lastMessageAt ELSE lastMessageAt

TimersOf(tms, uid) == {t \in tms : t.uid = uid}

\* C30: a peer has at most one pending expiry timer; a pulse for peer P clears
\* P's timer and starts a new one of 10 seconds, and leaves the timers of the
\* other peers as they were; so the timer that removes P fires exactly 10
\* seconds after P's most recent pulse (the age of P's entry).
C30_OneTimerPerPeer ==
    [][/\ \A uid \in Peers : Cardinality(TimersOf(timers', uid)) <= 1
       /\ \A e \in Range(typings'), lastMessageAt \in LastMessageAts :
              TypingUpdate(Pulse(e.uid, e.typedAt, lastMessageAt)) =>
                  /\ TimersOf(timers', e.uid) = {Timer(e.uid, 0)}
                  /\ \A other \in Peers \ {e.uid} :
                         TimersOf(timers', other) = TimersOf(timers, other)
       /\ \A uid \in Peers :
              TypingTimeout(uid) =>
                  \E i \in DOMAIN typings :
                      typings[i].uid = uid /\ typings[i].timeoutHandle = TypingExpiry
       /\ \A i \in DOMAIN typings' :
              /\ typings'[i].timeoutHandle <= TypingExpiry
              /\ Timer(typings'[i].uid, typings'[i].timeoutHandle) \in timers']_vars

\* the timer of a peer is due ten seconds after its pulse, while the other
\* peer, whose pulse came later, has a timer that is not
C30_Witness ==
    /\ Timer(1, TypingExpiry) \in timers
    /\ \E age \in 1..(TypingExpiry - 1) : Timer(2, age) \in timers
    /\ Len(typings) = 2


\* ================================================================= debounce
MaxDelay == 2      \* ms of the debounced function, in ticks
MaxArg == 3        \* the events of a burst carry the arguments 1..MaxArg

\* lines 11-22: what a call of the function debounce returns does
Debounced(args) ==
    /\ lastArgs' = args
    /\ IF scheduled
       THEN UNCHANGED <<scheduled, heldArgs, waited>>
       ELSE /\ scheduled' = TRUE
            /\ heldArgs' = args
            /\ waited' = 0
    /\ UNCHANGED <<delivered, idle>>

\* the function debounce returns is called with args
DebouncedCall(args) ==
    /\ Debounced(args)
    /\ UNCHANGED <<typings, typingNames, timers, throttleVars, sockAndChat>>

\* the timer set by setTimeout(..., ms) fires (lines 18-21)
DebounceFire ==
    /\ scheduled
    /\ waited = MaxDelay
    /\ scheduled' = FALSE
    /\ delivered' = heldArgs
    /\ idle' = 0
    /\ UNCHANGED <<heldArgs, waited, lastArgs, typings, typingNames, timers, throttleVars, sockAndChat>>

\* a tick passes; a timer that is due fires first
DebounceTick ==
    /\ scheduled => waited < MaxDelay
    /\ scheduled \/ idle < MaxDelay
    /\ waited' = IF scheduled THEN waited + 1 ELSE waited
    /\ idle' = IF idle < MaxDelay THEN idle + 1 ELSE idle
    /\ UNCHANGED <<scheduled, heldArgs, lastArgs, delivered, typings, typingNames, timers, throttleVars, sockAndChat>>

NextDebounce ==
    \/ \E args \in 1..MaxArg : DebouncedCall(args)
    \/ DebounceFire
    \/ DebounceTick

SpecDebounce == InitRealtime /\ [][NextDebounce]_vars

\* C22: a debounced listener is invoked at most once per interval for a burst
\* of events (an invocation comes a full interval after the one before), and
\* it is invoked with the arguments of the most recent event of the burst.
C22_DebounceUsesLatestArgs ==
    [][DebounceFire =>
          /\ delivered = Nil \/ idle = MaxDelay
          /\ delivered' = lastArgs]_vars

\* ------------------------------------------- on(event, callback, delay)
\* the handlers of the connection that were attached through debounce
DebouncedHandlers(hs) == {l \in Range(hs) : l.owner = 0 /\ l.delay > 0}

\* the application calls on('msg', callback, ms) with ms > 0 (the model holds
\* one function made by debounce at a time)
OnDebounced(slot) ==
    /\ \A l \in Range(listeners) : l.slot # slot
    /\ DebouncedHandlers(listeners \o ioHandlers) = {}
    /\ ~scheduled
    /\ SetSock(on(Sock, ListenerD("msg", 0, slot, MaxDelay)))
    /\ UNCHANGED <<holders, handles, chatVars, typingVars>>

\* the application calls the disposer that call of on() returned
OnDebouncedDispose(slot) ==
    /\ ListenerD("msg", 0, slot, MaxDelay) \in Range(listeners)
    /\ SetSock(onDisposer(Sock, ListenerD("msg", 0, slot, MaxDelay)))
    /\ UNCHANGED <<holders, handles, chatVars, typingVars>>

\* the server sends 'msg' to the connection: the attached handlers run, the
\* callbacks given with delay 0 at once, the debounced function as a call
Received(args) ==
    /\ io # Nil
    /\ connected
    /\ SetSock(Sock)
    /\ IF DebouncedHandlers(ioHandlers) # {}
       THEN Debounced(args)
       ELSE UNCHANGED debounceVars
    /\ UNCHANGED <<holders, handles, chatVars, typings, typingNames, timers, throttleVars>>

NextOn ==
    \/ Reconnect
    \/ IoConnect
    \/ IoDisconnect
    \/ \E slot \in 1..MaxOn : On(slot)
    \/ \E slot \in 1..MaxOn : OnDispose(slot)
    \/ \E slot \in 1..MaxOn : OnDebounced(slot)
    \/ \E slot \in 1..MaxOn : OnDebouncedDispose(slot)
    \/ \E args \in 1..MaxArg : Received(args)
    \/ DebounceFire
    \/ DebounceTick

SpecOn == InitRealtime /\ [][NextOn]_vars

\* C38: once the disposer on(event, callback, ms) returned has been called
\* the callback is not invoked for the event again, on this connection or a
\* later one, with ms = 0 and with ms > 0: an event reaches no callback given
\* with delay 0 that is not registered, and the timer of the debounced
\* function invokes the callback only while it is registered.
C38_DisposedNeverInvoked ==
    [][/\ \A args \in 1..MaxArg :
              Received(args) =>
                  \A l \in Range(ioHandlers) :
                      (l.event = "msg" /\ l.owner = 0 /\ l.delay = 0)
                          => l \in Range(listeners)
       /\ DebounceFire => DebouncedHandlers(listeners) # {}]_vars

\* ============================================================== updateTyping
TypingThrottle == 2   \* seconds (2000 ms)
MaxNow == 7           \* the clock runs from 1 to MaxNow

\* a window that also opens at the very end of the 2 seconds
ThrottleOpenAtEnd(prev, t) == prev = Nil \/ prev + TypingThrottle <= t

\* updateTyping, line 298: no pulse yet, or the last one more than 2 s ago
ThrottleOpen(prev, t) == prev = Nil \/ prev + TypingThrottle < t

\* TypingSubscription.updateTyping (lines 296-302)
UpdateTyping ==
    /\ IF ThrottleOpen(prevTypingCalledAt, now)
       THEN /\ prevTypingCalledAt' = now
            /\ SetSock(emit(Sock, Ev("typing/update", <<SelfUid>>)))
            /\ pulsedAt' = now
            /\ droppedAt' = Nil
       ELSE /\ SetSock(Sock)
            /\ droppedAt' = now
            /\ UNCHANGED <<prevTypingCalledAt, pulsedAt>>
    /\ UNCHANGED <<now, holders, handles, chatVars, typings, typingNames, timers, debounceVars>>

\* a second passes
ClockTick ==
    /\ now < MaxNow
    /\ now' = now + 1
    /\ UNCHANGED <<prevTypingCalledAt, pulsedAt, droppedAt, typings, typingNames, timers,
                   debounceVars, sockAndChat>>

NextThrottle ==
    \/ Reconnect
    \/ UpdateTyping
    \/ ClockTick

SpecThrottle == InitRealtime /\ [][NextThrottle]_vars

\* the 'typing/update' pulses a step hands to the connection or queues
PulsesOut ==
    Len(SelectSeq(emitted', LAMBDA e : e.event = "typing/update"))
        + (Len(pendingEmits') - Len(pendingEmits))

\* C23: updateTyping emits the local pulse at most once in any 2-second
\* window: a call emits at most one pulse, a call made within 2 seconds of
\* the last emitted pulse emits none and leaves the window start where it is.
C23_TypingThrottled ==
    [][UpdateTyping =>
          /\ PulsesOut <= 1
          /\ (pulsedAt # Nil /\ now <= pulsedAt + TypingThrottle)
                => (PulsesOut = 0 /\ UNCHANGED <<prevTypingCalledAt, pulsedAt>>)]_vars

\* a call made at the very end of the window of the last pulse was dropped
C23_Witness ==
    /\ pulsedAt # Nil
    /\ droppedAt = pulsedAt + TypingThrottle
    /\ io # Nil

\* C11: when a subscription that has cached a value observes a value, on the
\* acknowledgment of its subscribe or in a push, its listeners are invoked
\* (each once) if the value differs from the cached one, and no listener is
\* invoked if it is equal.
C11_NotifiedOnNewValue ==
    [][\A o \in DOMAIN subObjs, data \in 1..MaxValue :
          (subObjs[o].lastUpdatedValue # Nil /\ (SubscribeAck(o, data) \/ Updated(o, data)))
              => notified' = IF data # subObjs[o].lastUpdatedValue
                             THEN subObjs[o].listeners ELSE <<>>]_vars

====
